---- MODULE Spec2Model ----
(***************************************************************************)
(* A model of the rendering layer of sotrh/dirt: the Renderer (frame       *)
(* orchestration, terrain and text registries), the terrain index and      *)
(* instance buffers, and the terrain draw pipelines.                       *)
(*                                                                         *)
(* Spec       drives the Renderer through its public operations.           *)
(* SpecIndex  applies TerrainBuffer::new to every bounded tile size.       *)
(***************************************************************************)
EXTENDS Integers, Sequences, FiniteSets, TLC

VARIABLES
    renderer,   \* the Renderer struct (render/mod.rs:31-52)
    lastCall,   \* history: the last Renderer operation, its inputs and the calls it made
    tb_input,   \* SpecIndex: the arguments of TerrainBuffer::new
    tb_buffer,  \* SpecIndex: the TerrainBuffer it returned (empty before the call)
    app_game,   \* SpecApp: App::game, "None" or "Some" (app/mod.rs:60)
    events,     \* SpecApp: the AppEvents sent through the proxy, oldest first
    redraw_requested,  \* SpecApp: Window::request_redraw was called and not yet served
    exited,     \* SpecApp: ActiveEventLoop::exit was called (app/mod.rs:132)
    window,     \* SpecApp: the window's inner size, <<>> before resumed creates it
    game,       \* SpecApp: the Game's fields besides the renderer (game/mod.rs:73-87)
    tasks,      \* SpecApp: the threads App::spawn_task started (app/mod.rs:78-85)
    channels,   \* SpecApp: the bounded(1) channels of the loader (app/mod.rs:268-293)
    hist,       \* SpecApp: history of fatal acquisition errors and exit requests
    bb,         \* SpecBuffer: a BackedBuffer
    bb_hist,    \* SpecBuffer: history: the last operation on bb and what it was given
    builder,    \* SpecBuilder: a RenderPipelineBuilder
    built       \* SpecBuilder: what build() returned, status "none" before the call

rendererVars == <<renderer, lastCall>>
indexVars == <<tb_input, tb_buffer>>
appVars ==
    <<app_game, events, redraw_requested, exited, window, game, tasks, channels, hist>>
bufferVars == <<bb, bb_hist>>
builderVars == <<builder, built>>
vars == <<rendererVars, indexVars, appVars, bufferVars, builderVars>>

----------------------------------------------------------------------------
(* Bounds of the model *)

MaxTerrains == 2
MaxTexts == 1
MaxTerrainSize == 3
MaxTileSize == 12

(* Program constants *)

TilesCapacity == 8

(* u32 arithmetic.  Every operand the model feeds these stays far below    *)
(* 2^31 and no subtraction goes below zero (tile sizes are at least 1), so *)
(* the machine result is the integer result.                               *)
U32Sub(a, b) == a - b
U32Add(a, b) == a + b
U32Mul(a, b) == a * b

Max(a, b) == IF a >= b THEN a ELSE b

----------------------------------------------------------------------------
(* BackedBuffer<T> (render/buffer.rs is not part of the sources; modelled  *)
(* from section 4.1 of the specification).  data is the CPU mirror, one    *)
(* slot per element of capacity; alloc counts device allocations.          *)

BackedBuffer_with_data(elements) ==
    [data |-> elements, len |-> Len(elements), cap |-> Len(elements), alloc |-> 0]

BackedBuffer_with_capacity(n, zero) ==
    [data |-> [i \in 1..n |-> zero], len |-> 0, cap |-> n, alloc |-> 0]

(* Mutant of BackedBuffer_clear: the contents are zeroed as well *)
BackedBuffer_clear_zeroes(b) ==
    [b EXCEPT !.len = 0, !.data = [i \in 1..b.cap |-> 0]]

BackedBuffer_clear(b) == [b EXCEPT !.len = 0]

(* Mutant of BackedBuffer_push: growth allocates the new buffer without    *)
(* copying the old contents.                                               *)
BackedBuffer_push_growLosesData(b, e, zero) ==
    IF b.len < b.cap
    THEN [b EXCEPT !.data[b.len + 1] = e, !.len = b.len + 1]
    ELSE LET newcap == Max(2 * b.cap, 1)
         IN [data |-> [i \in 1..newcap |-> IF i = b.len + 1 THEN e ELSE zero],
             len |-> b.len + 1, cap |-> newcap, alloc |-> b.alloc + 1]

BackedBuffer_push(b, e, zero) ==
    IF b.len < b.cap
    THEN [b EXCEPT !.data[b.len + 1] = e, !.len = b.len + 1]
    ELSE LET newcap == Max(2 * b.cap, 1)
             grown == [i \in 1..newcap |-> IF i <= b.len THEN b.data[i] ELSE zero]
         IN [data |-> [grown EXCEPT ![b.len + 1] = e],
             len |-> b.len + 1, cap |-> newcap, alloc |-> b.alloc + 1]

(* Mutant of BackedBuffer_batch: every push overwrites the element before  *)
(* it, so only the last one is kept.                                       *)
BackedBuffer_batch_keepsLast(b, elements, zero) ==
    IF elements = <<>> THEN b
    ELSE BackedBuffer_push(b, elements[Len(elements)], zero)

RECURSIVE BackedBuffer_batch(_, _, _)
BackedBuffer_batch(b, elements, zero) ==
    IF elements = <<>> THEN b
    ELSE BackedBuffer_batch(BackedBuffer_push(b, Head(elements), zero), Tail(elements), zero)

BackedBuffer_update(b, i, e) == [b EXCEPT !.data[i] = e]

BackedBuffer_slice(b) == SubSeq(b.data, 1, b.len)

(* Mutant of BackedBuffer_replace: a longer replacement is written without *)
(* reallocating.                                                           *)
BackedBuffer_replace_noGrow(b, elements, zero, grown_cap) ==
    [b EXCEPT !.data = [i \in 1..b.cap |->
                           IF i <= Len(elements) THEN elements[i] ELSE b.data[i]],
              !.len = Len(elements)]

(* Mutant of BackedBuffer_replace: a longer replacement is cut to the      *)
(* capacity instead of reallocating.                                       *)
BackedBuffer_replace_truncates(b, elements, zero, grown_cap) ==
    LET n == IF Len(elements) > b.cap THEN b.cap ELSE Len(elements)
    IN [b EXCEPT !.data = [i \in 1..b.cap |-> IF i <= n THEN elements[i] ELSE b.data[i]],
                 !.len = n]

(* replace (section 4.1 of the specification): longer than the capacity,   *)
(* the buffer is reallocated to grown_cap elements, which the caller of    *)
(* this operator picks at or above the new length, and everything is       *)
(* uploaded; otherwise the elements are overwritten in place.              *)
BackedBuffer_replace(b, elements, zero, grown_cap) ==
    IF Len(elements) > b.cap
    THEN [data |-> [i \in 1..grown_cap |->
                        IF i <= Len(elements) THEN elements[i] ELSE zero],
          len |-> Len(elements), cap |-> grown_cap, alloc |-> b.alloc + 1]
    ELSE [b EXCEPT !.data = [i \in 1..b.cap |->
                                 IF i <= Len(elements) THEN elements[i] ELSE b.data[i]],
                   !.len = Len(elements)]

(* History of SpecBuffer: the last operation and the one before it, its    *)
(* argument, the contents left by the last creation, clear or replace,     *)
(* what was pushed since, and the buffer before the operation.             *)
BufferCall(op, prev_op, arg, base, pushed, prev) ==
    [op |-> op, prev_op |-> prev_op, arg |-> arg, base |-> base,
     pushed |-> pushed, prev |-> prev]

(* The buffer of the specifications that do not use it *)
BufferUnused ==
    /\ bb = BackedBuffer_with_capacity(0, 0)
    /\ bb_hist = BufferCall("none", "none", <<>>, <<>>, <<>>,
                            BackedBuffer_with_capacity(0, 0))

----------------
(* RenderPipelineBuilder (render/utils.rs is not part of the sources;      *)
(* modelled from section 4.3 of the specification).  A field that was not  *)
(* set holds "None".                                                       *)

RenderPipelineBuilder_new ==
    [layout |-> "None", vertex |-> "None", depth |-> "None", cull_mode |-> "None",
     fragment |-> "None"]

RenderPipelineBuilder_layout(b, layout) == [b EXCEPT !.layout = layout]
RenderPipelineBuilder_vertex(b, entry_point) == [b EXCEPT !.vertex = entry_point]
RenderPipelineBuilder_depth(b, compare) == [b EXCEPT !.depth = compare]
RenderPipelineBuilder_cull_mode(b, face) == [b EXCEPT !.cull_mode = face]
RenderPipelineBuilder_fragment(b, entry_point) == [b EXCEPT !.fragment = entry_point]

NotBuilt == [status |-> "none", pipeline |-> RenderPipelineBuilder_new]

(* Mutant of RenderPipelineBuilder_build: only the layout is validated *)
RenderPipelineBuilder_build_vertexUnchecked(b) ==
    IF b.layout = "None"
    THEN [status |-> "configuration_error", pipeline |-> RenderPipelineBuilder_new]
    ELSE [status |-> "ok", pipeline |-> b]

RenderPipelineBuilder_build(b) ==
    IF b.layout = "None" \/ b.vertex = "None"
    THEN [status |-> "configuration_error", pipeline |-> RenderPipelineBuilder_new]
    ELSE [status |-> "ok", pipeline |-> b]

BuilderUnused ==
    /\ builder = RenderPipelineBuilder_new
    /\ built = NotBuilt

----------------------------------------------------------------------------
(* Terrain (world/terrain.rs) *)

Heights == [mountain |-> 50, dune |-> 50, spire |-> 50]

RECURSIVE GenerateRow(_, _, _)
GenerateRow(x, z, terrain_size) ==
    IF x >= terrain_size THEN <<>>
    ELSE <<[id |-> <<x, z>>]>> \o GenerateRow(x + 1, z, terrain_size)

RECURSIVE GenerateRows(_, _)
GenerateRows(z, terrain_size) ==
    IF z >= terrain_size THEN <<>>
    ELSE GenerateRow(0, z, terrain_size) \o GenerateRows(z + 1, terrain_size)

Terrain_generate(terrain_size, tile_size, heights) ==
    [heights |-> heights, size |-> terrain_size, tile_size |-> tile_size,
     tiles |-> GenerateRows(0, terrain_size)]

----------------------------------------------------------------------------
(* TerrainBuffer::new (render/terrain.rs:49-90) *)

ZeroInstance == [position |-> <<0, 0>>]

(* Mutants of CellIndices: a corner one vertex too far, and a second       *)
(* triangle wound the other way.                                           *)
CellIndices_cornerTooFar(x, z, tile_size) ==
    LET i == U32Add(x, U32Mul(z, tile_size))
    IN << i, U32Add(U32Add(i, 2), tile_size), U32Add(i, 1),
          i, U32Add(i, tile_size), U32Add(U32Add(i, 2), tile_size) >>

CellIndices_flipped(x, z, tile_size) ==
    LET i == U32Add(x, U32Mul(z, tile_size))
    IN << i, U32Add(U32Add(i, 1), tile_size), U32Add(i, 1),
          i, U32Add(U32Add(i, 1), tile_size), U32Add(i, tile_size) >>

CellIndices(x, z, tile_size) ==
    LET i == U32Add(x, U32Mul(z, tile_size))
    IN << i, U32Add(U32Add(i, 1), tile_size), U32Add(i, 1),
          i, U32Add(i, tile_size), U32Add(U32Add(i, 1), tile_size) >>

RECURSIVE IndexRow(_, _, _)
IndexRow(x, z, tile_size) ==
    IF x >= U32Sub(tile_size, 1) THEN <<>>
    ELSE CellIndices(x, z, tile_size) \o IndexRow(x + 1, z, tile_size)

RECURSIVE IndexRows(_, _)
IndexRows(z, tile_size) ==
    IF z >= U32Sub(tile_size, 1) THEN <<>>
    ELSE IndexRow(0, z, tile_size) \o IndexRows(z + 1, tile_size)

TerrainBuffer_new(tile_size, heights) ==
    LET terrain_data == BackedBuffer_with_data(
            <<[tile_size |-> tile_size, mountain_height |-> heights.mountain,
               dune_height |-> heights.dune, spire_height |-> heights.spire]>>)
    IN [indices |-> BackedBuffer_with_data(IndexRows(0, tile_size)),
        tiles |-> BackedBuffer_with_capacity(TilesCapacity, ZeroInstance),
        terrain_data |-> terrain_data,
        binding |-> [alloc |-> terrain_data.alloc]]

----------------------------------------------------------------------------
(* Calls made on the device, the queue, the encoder and the render passes. *)
(* Every call is one entry of a log, in the order the code makes it.       *)

Call(op, pass, slot, res, id, n, k) ==
    [op |-> op, pass |-> pass, slot |-> slot, res |-> res, id |-> id, n |-> n, k |-> k]

(* Mutant of TerrainPipeline_draw: the instance range runs to the          *)
(* capacity of the instance buffer instead of its length.                  *)
TerrainPipeline_draw_toCapacity(pass, buffer, id) ==
    IF buffer.tiles.len = 0 THEN <<>>
    ELSE << Call("set_pipeline", pass, 0, "triplanar_pipeline", id, 0, 0),
            Call("set_bind_group", pass, 0, "terrain_binding", id, 0, 0),
            Call("set_bind_group", pass, 1, "main_camera_binding", id, 0, 0),
            Call("set_bind_group", pass, 2, "terrain_texture_binding", id, 0, 0),
            Call("set_index_buffer", pass, 0, "indices", id, 0, 0),
            Call("set_vertex_buffer", pass, 0, "tiles", id, 0, 0),
            Call("draw_indexed", pass, 0, "triplanar_pipeline", id,
                 buffer.indices.len, buffer.tiles.cap) >>

(* The bind group layouts of the two pipeline layouts                      *)
(* (render/terrain.rs:108-120), in slot order.                             *)
TerrainPipeline_layouts(pipeline) ==
    IF pipeline = "triplanar_pipeline"
    THEN <<"uniform_binder", "camera_binder", "texture_binder">>
    ELSE <<"uniform_binder", "camera_binder">>

(* Mutant of TerrainPipeline_draw: the camera at slot 0 and the terrain's  *)
(* uniform at slot 1.                                                      *)
TerrainPipeline_draw_slotsSwapped(pass, buffer, id) ==
    IF buffer.tiles.len = 0 THEN <<>>
    ELSE << Call("set_pipeline", pass, 0, "triplanar_pipeline", id, 0, 0),
            Call("set_bind_group", pass, 0, "main_camera_binding", id, 0, 0),
            Call("set_bind_group", pass, 1, "terrain_binding", id, 0, 0),
            Call("set_bind_group", pass, 2, "terrain_texture_binding", id, 0, 0),
            Call("set_index_buffer", pass, 0, "indices", id, 0, 0),
            Call("set_vertex_buffer", pass, 0, "tiles", id, 0, 0),
            Call("draw_indexed", pass, 0, "triplanar_pipeline", id,
                 buffer.indices.len, buffer.tiles.len) >>

(* TerrainPipeline::draw (render/terrain.rs:178-196).  id names the        *)
(* registry entry that buffer was borrowed from.                           *)
TerrainPipeline_draw(pass, buffer, id) ==
    IF buffer.tiles.len = 0 THEN <<>>
    ELSE << Call("set_pipeline", pass, 0, "triplanar_pipeline", id, 0, 0),
            Call("set_bind_group", pass, 0, "terrain_binding", id, 0, 0),
            Call("set_bind_group", pass, 1, "main_camera_binding", id, 0, 0),
            Call("set_bind_group", pass, 2, "terrain_texture_binding", id, 0, 0),
            Call("set_index_buffer", pass, 0, "indices", id, 0, 0),
            Call("set_vertex_buffer", pass, 0, "tiles", id, 0, 0),
            Call("draw_indexed", pass, 0, "triplanar_pipeline", id,
                 buffer.indices.len, buffer.tiles.len) >>

(* Mutant of TerrainPipeline_debug: no early return on an empty instance   *)
(* buffer.                                                                 *)
TerrainPipeline_debug_noGuard(pass, buffer, id) ==
    << Call("set_pipeline", pass, 0, "debug_pipeline", id, 0, 0),
       Call("set_bind_group", pass, 0, "terrain_binding", id, 0, 0),
       Call("set_bind_group", pass, 1, "main_camera_binding", id, 0, 0),
       Call("set_index_buffer", pass, 0, "indices", id, 0, 0),
       Call("set_vertex_buffer", pass, 0, "tiles", id, 0, 0),
       Call("draw_indexed", pass, 0, "debug_pipeline", id,
            buffer.indices.len, buffer.tiles.len) >>

(* TerrainPipeline::debug (render/terrain.rs:198-214) *)
TerrainPipeline_debug(pass, buffer, id) ==
    IF buffer.tiles.len = 0 THEN <<>>
    ELSE << Call("set_pipeline", pass, 0, "debug_pipeline", id, 0, 0),
            Call("set_bind_group", pass, 0, "terrain_binding", id, 0, 0),
            Call("set_bind_group", pass, 1, "main_camera_binding", id, 0, 0),
            Call("set_index_buffer", pass, 0, "indices", id, 0, 0),
            Call("set_vertex_buffer", pass, 0, "tiles", id, 0, 0),
            Call("draw_indexed", pass, 0, "debug_pipeline", id,
                 buffer.indices.len, buffer.tiles.len) >>

----------------
(* TextPipeline and TextBuffer (render/font.rs is not part of the sources; *)
(* modelled from section 4.5 of the specification).  A text is a sequence  *)
(* of characters; a character is visible when it is not white space.       *)

IsVisible(c) == c \notin {" ", "\n"}

RECURSIVE GlyphCount(_)
GlyphCount(text) ==
    IF text = <<>> THEN 0
    ELSE (IF IsVisible(Head(text)) THEN 1 ELSE 0) + GlyphCount(Tail(text))

(* The advance width of a character in the atlas *)
Font_advance(c) == IF c = " " THEN 1 ELSE 2

(* The quad of one glyph laid out at x: its four corners, and the two      *)
(* triangles over the vertices base..base+3.                               *)
GlyphQuad(c, x, base) ==
    [vertices |-> << [glyph |-> c, x |-> x, y |-> 0],
                     [glyph |-> c, x |-> x + Font_advance(c), y |-> 0],
                     [glyph |-> c, x |-> x + Font_advance(c), y |-> 1],
                     [glyph |-> c, x |-> x, y |-> 1] >>,
     indices |-> <<base, base + 1, base + 2, base, base + 2, base + 3>>]

(* Mutant of TextVertices: white space gets a quad too *)
RECURSIVE TextVertices_quadPerCharacter(_, _)
TextVertices_quadPerCharacter(text, x) ==
    IF text = <<>> THEN <<>>
    ELSE GlyphQuad(Head(text), x, 0).vertices
         \o TextVertices_quadPerCharacter(Tail(text), x + Font_advance(Head(text)))

(* The layout of bufferText (section 4.5): left to right by advance, one   *)
(* quad per visible glyph.  The vertices ...                               *)
RECURSIVE TextVertices(_, _)
TextVertices(text, x) ==
    IF text = <<>> THEN <<>>
    ELSE (IF IsVisible(Head(text)) THEN GlyphQuad(Head(text), x, 0).vertices ELSE <<>>)
         \o TextVertices(Tail(text), x + Font_advance(Head(text)))

(* ... and the indices, base being the first vertex of the next quad.      *)
RECURSIVE TextIndices(_, _)
TextIndices(text, base) ==
    IF text = <<>> THEN <<>>
    ELSE IF IsVisible(Head(text))
         THEN GlyphQuad(Head(text), 0, base).indices \o TextIndices(Tail(text), base + 4)
         ELSE TextIndices(Tail(text), base)

TextQuads(text, x, base) ==
    [vertices |-> TextVertices(text, x), indices |-> TextIndices(text, base)]

TextPipeline_buffer_text(text) ==
    LET geometry == TextQuads(text, 0, 0)
    IN [text |-> text, glyphs |-> GlyphCount(text),
        vertices |-> Len(geometry.vertices), indices |-> Len(geometry.indices)]

(* Mutant of TextPipeline_update_text: the new string is laid out over the *)
(* old geometry, which is kept where the new one is shorter.               *)
TextPipeline_update_text_patches(text, buffer) ==
    LET fresh == TextPipeline_buffer_text(text)
    IN [fresh EXCEPT !.glyphs = Max(fresh.glyphs, buffer.glyphs),
                     !.vertices = Max(fresh.vertices, buffer.vertices),
                     !.indices = Max(fresh.indices, buffer.indices)]

TextPipeline_update_text(text, buffer) == TextPipeline_buffer_text(text)

TextPipeline_draw_text(pass, text, id) ==
    IF text.glyphs = 0 THEN <<>>
    ELSE << Call("set_pipeline", pass, 0, "text_pipeline", id, 0, 0),
            Call("set_bind_group", pass, 0, "ui_camera_binding", id, 0, 0),
            Call("set_bind_group", pass, 1, "font_binding", id, 0, 0),
            Call("set_vertex_buffer", pass, 0, "text_vertices", id, 0, 0),
            Call("set_index_buffer", pass, 0, "text_indices", id, 0, 0),
            Call("draw_indexed", pass, 0, "text_pipeline", id, text.indices, 1) >>

----------------------------------------------------------------------------
(* Renderer (render/mod.rs) *)

(* CameraData (render/data.rs:6-20).  A view-projection matrix is kept     *)
(* symbolic: the projection that built it and its parameters.              *)
CameraData_IDENTITY == [view_proj |-> [proj |-> "IDENTITY", a |-> 0, b |-> 0]]

Camera_view_proj(camera) == [proj |-> camera.proj, a |-> camera.a, b |-> camera.b]

CameraData_update(data, camera) == [data EXCEPT !.view_proj = Camera_view_proj(camera)]

(* Renderer::new (render/mod.rs:55-209).  wasm32 is the build for which    *)
(* is_surface_configured starts false.                                     *)
Renderer_new(width, height, wasm32) ==
    LET ui == BackedBuffer_with_data(<<CameraData_IDENTITY>>)
        main == BackedBuffer_with_data(<<CameraData_IDENTITY>>)
        w == Max(width, 1)
        h == Max(height, 1)
    IN [is_surface_configured |-> ~wasm32,
        config |-> [width |-> w, height |-> h],
        text_buffers |-> <<>>,
        ui_camera_buffer |-> ui,
        ui_camera_binding |-> [alloc |-> ui.alloc],
        terrain_buffers |-> <<>>,
        depth_buffer |-> [width |-> w, height |-> h, format |-> "Depth32Float"],
        main_camera_buffer |-> main,
        main_camera_binding |-> [alloc |-> main.alloc]]

(* Mutant of Renderer_resize: the depth texture is not recreated *)
Renderer_resize_keepsDepth(r, width, height) ==
    [r EXCEPT !.is_surface_configured = TRUE,
              !.config = [width |-> Max(width, 1), height |-> Max(height, 1)]]

(* Renderer::resize (render/mod.rs:211-232) *)
Renderer_resize(r, width, height) ==
    LET w == Max(width, 1)
        h == Max(height, 1)
    IN [r EXCEPT !.is_surface_configured = TRUE,
                 !.config = [width |-> w, height |-> h],
                 !.depth_buffer = [width |-> w, height |-> h,
                                   format |-> r.depth_buffer.format]]

(* Mutant of MainPassDraws: the loop stops one terrain early *)
RECURSIVE MainPassDraws_stopsEarly(_, _, _)
MainPassDraws_stopsEarly(terrain_buffers, i, debug_mode_active) ==
    IF i >= Len(terrain_buffers) THEN <<>>
    ELSE (IF debug_mode_active
          THEN TerrainPipeline_debug("main_pass", terrain_buffers[i], i - 1)
          ELSE TerrainPipeline_draw("main_pass", terrain_buffers[i], i - 1))
         \o MainPassDraws_stopsEarly(terrain_buffers, i + 1, debug_mode_active)

(* Mutant of MainPassDraws: the first terrain is drawn shaded whatever the  *)
(* flag.                                                                   *)
RECURSIVE MainPassDraws_firstShaded(_, _, _)
MainPassDraws_firstShaded(terrain_buffers, i, debug_mode_active) ==
    IF i > Len(terrain_buffers) THEN <<>>
    ELSE (IF debug_mode_active /\ i > 1
          THEN TerrainPipeline_debug("main_pass", terrain_buffers[i], i - 1)
          ELSE TerrainPipeline_draw("main_pass", terrain_buffers[i], i - 1))
         \o MainPassDraws_firstShaded(terrain_buffers, i + 1, debug_mode_active)

(* The world pass of Renderer::render (render/mod.rs:269-305) *)
RECURSIVE MainPassDraws(_, _, _)
MainPassDraws(terrain_buffers, i, debug_mode_active) ==
    IF i > Len(terrain_buffers) THEN <<>>
    ELSE (IF debug_mode_active
          THEN TerrainPipeline_debug("main_pass", terrain_buffers[i], i - 1)
          ELSE TerrainPipeline_draw("main_pass", terrain_buffers[i], i - 1))
         \o MainPassDraws(terrain_buffers, i + 1, debug_mode_active)

MainPass(r, debug_mode_active) ==
    << Call("begin_render_pass", "main_pass", 0, "clear", -1, 0, 0) >>
    \o MainPassDraws(r.terrain_buffers, 1, debug_mode_active)
    \o << Call("end_render_pass", "main_pass", 0, "", -1, 0, 0) >>

(* The UI pass of Renderer::render (render/mod.rs:307-327) *)
RECURSIVE UiPassDraws(_, _)
UiPassDraws(text_buffers, i) ==
    IF i > Len(text_buffers) THEN <<>>
    ELSE TextPipeline_draw_text("ui_pass", text_buffers[i], i - 1)
         \o UiPassDraws(text_buffers, i + 1)

UiPass(r) ==
    << Call("begin_render_pass", "ui_pass", 0, "load", -1, 0, 0) >>
    \o UiPassDraws(r.text_buffers, 1)
    \o << Call("end_render_pass", "ui_pass", 0, "", -1, 0, 0) >>

(* The camera uniform writes of Renderer::render (render/mod.rs:260-263) *)
CameraWrites ==
    << Call("write_buffer", "", 0, "ui_camera_buffer", -1, 0, 0),
       Call("write_buffer", "", 0, "main_camera_buffer", -1, 0, 0) >>

(* queue.submit and frame.present (render/mod.rs:329-330) *)
SubmitPresent ==
    << Call("submit", "", 0, "", -1, 0, 0), Call("present", "", 0, "", -1, 0, 0) >>

(* Mutant of FrameCalls: the UI pass recorded before the world pass *)
FrameCalls_uiPassFirst(r, debug_mode_active) ==
    CameraWrites \o UiPass(r) \o MainPass(r, debug_mode_active) \o SubmitPresent

(* What Renderer::render does with an acquired frame, in the order of the  *)
(* code (render/mod.rs:260-330).                                           *)
FrameCalls(r, debug_mode_active) ==
    CameraWrites \o MainPass(r, debug_mode_active) \o UiPass(r) \o SubmitPresent

(* The outcomes of Surface::get_current_texture: a frame, or a            *)
(* wgpu::SurfaceError.  Timeout and Lost stand for every variant other     *)
(* than Outdated, which the code does not tell apart.                      *)
SurfaceErrors == {"Timeout", "Outdated", "Lost"}
Acquisitions == {"Ok"} \cup SurfaceErrors

(* Mutant of AcquireArm: Outdated handled by the catch-all arm *)
AcquireArm_outdatedFatal(acquired) ==
    IF acquired = "Ok" THEN "frame" ELSE "exit"

(* The match on get_current_texture's result (render/mod.rs:246-258):      *)
(* which arm runs.                                                         *)
AcquireArm(acquired) ==
    IF acquired = "Ok" THEN "frame"
    ELSE IF acquired = "Outdated" THEN "return"
    ELSE "exit"

(* Mutant of Renderer_render: the world camera is uploaded into a new      *)
(* buffer and the binding is kept.                                         *)
Renderer_render_reallocatesCamera(r, acquired, ui_camera, player_camera, debug_mode_active) ==
    LET configure == IF r.is_surface_configured THEN <<>>
                     ELSE << Call("configure", "", 0, "surface", -1,
                                  r.config.width, r.config.height) >>
        r1 == [r EXCEPT !.is_surface_configured = TRUE]
        acquire == << Call("get_current_texture", "", 0, acquired, -1,
                           r.config.width, r.config.height) >>
        arm == AcquireArm(acquired)
    IN IF arm = "return"
       THEN [r |-> r1, log |-> configure \o acquire, exit |-> FALSE]
       ELSE IF arm = "exit"
       THEN [r |-> r1,
             log |-> configure \o acquire \o << Call("app.exit", "", 0, "", -1, 0, 0) >>,
             exit |-> TRUE]
       ELSE LET r2 == [r1 EXCEPT
                         !.ui_camera_buffer =
                             BackedBuffer_update(r1.ui_camera_buffer, 1,
                                 CameraData_update(r1.ui_camera_buffer.data[1], ui_camera)),
                         !.main_camera_buffer =
                             [BackedBuffer_with_data(
                                  <<CameraData_update(r1.main_camera_buffer.data[1],
                                                      player_camera)>>)
                              EXCEPT !.alloc = r1.main_camera_buffer.alloc + 1]]
            IN [r |-> r2,
                log |-> configure \o acquire \o FrameCalls(r2, debug_mode_active),
                exit |-> FALSE]

(* Mutant of Renderer_render: the surface is acquired as it is *)
Renderer_render_noConfigure(r, acquired, ui_camera, player_camera, debug_mode_active) ==
    LET configure == <<>>
        r1 == r
        acquire == << Call("get_current_texture", "", 0, acquired, -1,
                           r.config.width, r.config.height) >>
        arm == AcquireArm(acquired)
    IN IF arm = "return"
       THEN [r |-> r1, log |-> configure \o acquire, exit |-> FALSE]
       ELSE IF arm = "exit"
       THEN [r |-> r1,
             log |-> configure \o acquire \o << Call("app.exit", "", 0, "", -1, 0, 0) >>,
             exit |-> TRUE]
       ELSE LET r2 == [r1 EXCEPT
                         !.ui_camera_buffer =
                             BackedBuffer_update(r1.ui_camera_buffer, 1,
                                 CameraData_update(r1.ui_camera_buffer.data[1], ui_camera)),
                         !.main_camera_buffer =
                             BackedBuffer_update(r1.main_camera_buffer, 1,
                                 CameraData_update(r1.main_camera_buffer.data[1],
                                                   player_camera))]
            IN [r |-> r2,
                log |-> configure \o acquire \o FrameCalls(r2, debug_mode_active),
                exit |-> FALSE]

(* Renderer::render (render/mod.rs:234-331): the renderer afterwards, the  *)
(* calls made in order, and whether app.exit() was called.                 *)
Renderer_render(r, acquired, ui_camera, player_camera, debug_mode_active) ==
    LET configure == IF r.is_surface_configured THEN <<>>
                     ELSE << Call("configure", "", 0, "surface", -1,
                                  r.config.width, r.config.height) >>
        r1 == [r EXCEPT !.is_surface_configured = TRUE]
        acquire == << Call("get_current_texture", "", 0, acquired, -1,
                           r.config.width, r.config.height) >>
        arm == AcquireArm(acquired)
    IN IF arm = "return"
       THEN [r |-> r1, log |-> configure \o acquire, exit |-> FALSE]
       ELSE IF arm = "exit"
       THEN [r |-> r1,
             log |-> configure \o acquire \o << Call("app.exit", "", 0, "", -1, 0, 0) >>,
             exit |-> TRUE]
       ELSE LET r2 == [r1 EXCEPT
                         !.ui_camera_buffer =
                             BackedBuffer_update(r1.ui_camera_buffer, 1,
                                 CameraData_update(r1.ui_camera_buffer.data[1], ui_camera)),
                         !.main_camera_buffer =
                             BackedBuffer_update(r1.main_camera_buffer, 1,
                                 CameraData_update(r1.main_camera_buffer.data[1],
                                                   player_camera))]
            IN [r |-> r2,
                log |-> configure \o acquire \o FrameCalls(r2, debug_mode_active),
                exit |-> FALSE]

(* Mutant of Renderer_buffer_terrain: the id read after the push *)
Renderer_buffer_terrain_idAfterPush(r, terrain) ==
    LET buffer == TerrainBuffer_new(terrain.tile_size, terrain.heights)
        pushed == Append(r.terrain_buffers, buffer)
    IN [r |-> [r EXCEPT !.terrain_buffers = pushed], id |-> Len(pushed)]

(* Renderer::buffer_terrain (render/mod.rs:333-344) *)
Renderer_buffer_terrain(r, terrain) ==
    LET id == Len(r.terrain_buffers)
        buffer == TerrainBuffer_new(terrain.tile_size, terrain.heights)
    IN [r |-> [r EXCEPT !.terrain_buffers = Append(r.terrain_buffers, buffer)],
        id |-> id]

(* A variant of TerrainInstances without the 0..2 window: every tile of    *)
(* the list is pushed.                                                     *)
RECURSIVE TerrainInstances_unfiltered(_, _)
TerrainInstances_unfiltered(tiles, tile_size) ==
    IF tiles = <<>> THEN <<>>
    ELSE << [position |-> << U32Mul(Head(tiles).id[1], U32Sub(tile_size, 1)),
                            U32Mul(Head(tiles).id[2], U32Sub(tile_size, 1)) >>] >>
         \o TerrainInstances_unfiltered(Tail(tiles), tile_size)

(* A variant of TerrainInstances that spaces the tiles tile_size apart *)
RECURSIVE TerrainInstances_spacedByTileSize(_, _)
TerrainInstances_spacedByTileSize(tiles, tile_size) ==
    IF tiles = <<>> THEN <<>>
    ELSE LET tile == Head(tiles)
             rest == TerrainInstances_spacedByTileSize(Tail(tiles), tile_size)
         IN IF tile.id[1] \in 0..1 /\ tile.id[2] \in 0..1
            THEN << [position |-> << U32Mul(tile.id[1], tile_size),
                                    U32Mul(tile.id[2], tile_size) >>] >>
                 \o rest
            ELSE rest

(* The instances Renderer::update_terrain pushes (render/mod.rs:350-359) *)
RECURSIVE TerrainInstances(_, _)
TerrainInstances(tiles, tile_size) ==
    IF tiles = <<>> THEN <<>>
    ELSE LET tile == Head(tiles)
             rest == TerrainInstances(Tail(tiles), tile_size)
         IN IF tile.id[1] \in 0..1 /\ tile.id[2] \in 0..1
            THEN << [position |-> << U32Mul(tile.id[1], U32Sub(tile_size, 1)),
                                    U32Mul(tile.id[2], U32Sub(tile_size, 1)) >>] >>
                 \o rest
            ELSE rest

(* Mutant of Renderer_update_terrain: the instance buffer is not cleared   *)
(* before the batch.                                                       *)
Renderer_update_terrain_noClear(r, terrain_id, terrain) ==
    LET buffer == r.terrain_buffers[terrain_id + 1]
        tiles == BackedBuffer_batch(buffer.tiles,
                                    TerrainInstances(terrain.tiles, terrain.tile_size),
                                    ZeroInstance)
    IN [r EXCEPT !.terrain_buffers[terrain_id + 1].tiles = tiles]

(* A variant of Renderer_update_terrain that fills the instance buffer of  *)
(* every registered terrain.                                               *)
Renderer_update_terrain_allTerrains(r, terrain_id, terrain) ==
    [r EXCEPT !.terrain_buffers =
        [i \in 1..Len(r.terrain_buffers) |->
            [r.terrain_buffers[i] EXCEPT !.tiles =
                BackedBuffer_batch(BackedBuffer_clear(r.terrain_buffers[i].tiles),
                                   TerrainInstances(terrain.tiles, terrain.tile_size),
                                   ZeroInstance)]]]

(* Renderer::update_terrain (render/mod.rs:346-360) *)
Renderer_update_terrain(r, terrain_id, terrain) ==
    LET buffer == r.terrain_buffers[terrain_id + 1]
        cleared == BackedBuffer_clear(buffer.tiles)
        tiles == BackedBuffer_batch(cleared,
                                    TerrainInstances(terrain.tiles, terrain.tile_size),
                                    ZeroInstance)
    IN [r EXCEPT !.terrain_buffers[terrain_id + 1].tiles = tiles]

(* Renderer::buffer_text (render/mod.rs:362-370) *)
Renderer_buffer_text(r, text) ==
    LET id == Len(r.text_buffers)
    IN [r |-> [r EXCEPT !.text_buffers =
                   Append(r.text_buffers, TextPipeline_buffer_text(text))],
        id |-> id]

(* Renderer::update_text (render/mod.rs:372-374) *)
Renderer_update_text(r, text_id, text) ==
    [r EXCEPT !.text_buffers[text_id + 1] =
        TextPipeline_update_text(text, r.text_buffers[text_id + 1])]

----------------------------------------------------------------------------
(* Inputs of the Renderer's operations *)


(* The terrains handed to buffer_terrain and update_terrain: what          *)
(* Terrain::generate builds for an empty world, a single tile of tile size *)
(* 4, and a MaxTerrainSize x MaxTerrainSize world of tile size 2.          *)
Terrains ==
    { Terrain_generate(0, 4, Heights), Terrain_generate(1, 4, Heights),
      Terrain_generate(MaxTerrainSize, 2, Heights) }

NoTerrain == [heights |-> Heights, size |-> 0, tile_size |-> 0, tiles |-> <<>>]

Texts == { <<" ">>, <<"O", "K">> }

(* Window sizes the windowing layer reports; 0 is a minimised window *)
Sizes == { <<0, 0>>, <<2, 1>> }

(* Camera2d and PerspectiveCamera (world/camera.rs:9-91): a is the width   *)
(* or the pose, b the height.                                              *)
Camera2d(width, height) == [proj |-> "orthographic_rh", a |-> width, b |-> height]
PerspectiveCamera(pose) == [proj |-> "perspective_rh", a |-> pose, b |-> 0]
UiCameras == {Camera2d(1, 1)}
PlayerCameras == {PerspectiveCamera(p) : p \in {0, 1}}

----------------------------------------------------------------------------
(* The application: its settings, events, tasks and channels *)

(* Cap on the calls of Game::exit and on the length of the event queue     *)
MaxExits == 1
MaxEvents == 2

(* The tile size and terrain size of Settings::default, 256 and 16 in      *)
(* game/mod.rs:61-67, scaled down so that an index buffer stays small.     *)
DefaultTileSize == 4
DefaultTerrainSize == 2

(* Settings (game/mod.rs:23-51): the fields the model follows *)
Settings_default ==
    [debug_mode_active |-> FALSE, fullscreen |-> FALSE,
     tile_size |-> DefaultTileSize, terrain_size |-> DefaultTerrainSize]

(* What a well-formed settings.json and terrains/default.json hold: debug  *)
(* mode switched on, and a terrain of a single tile.                       *)
SettingsFile ==
    [debug_mode_active |-> TRUE, fullscreen |-> FALSE,
     tile_size |-> DefaultTileSize, terrain_size |-> DefaultTerrainSize]
TerrainFile == Terrain_generate(1, DefaultTileSize, Heights)

(* What reading or writing a file gives: an error, content that does not   *)
(* parse, or success.                                                      *)
FileOutcomes == {"err", "malformed", "ok"}

(* AppEvent (app/mod.rs:17-25); data is the settings a Task captured or a  *)
(* SaveString carries.                                                     *)
AppEvent(type, path, chan, data) ==
    [type |-> type, path |-> path, chan |-> chan, data |-> data]

(* A thread started by App::spawn_task (app/mod.rs:78-85) *)
Task(kind, pc, path, chan, data) ==
    [kind |-> kind, pc |-> pc, path |-> path, chan |-> chan, data |-> data]

(* The text of the debug overlay: Game::new (game/mod.rs:103-110) and      *)
(* Game::render (game/mod.rs:172-184), with both durations read as 0ns.    *)
OnOff(debug_mode_active) ==
    IF debug_mode_active THEN <<"O", "N">> ELSE <<"O", "F", "F">>

InitialDebugText(debug_mode_active) ==
    <<"D", "e", "b", "u", "g", " ", "M", "o", "d", "e", ":", " ">>
    \o OnOff(debug_mode_active)
    \o <<"\n", "T", "i", "c", "k", "R", "a", "t", "e", ":", " ", "-", "-", "-">>

FrameDebugText(debug_mode_active) ==
    <<"D", "e", "b", "u", "g", " ", "M", "o", "d", "e", ":", " ">>
    \o OnOff(debug_mode_active)
    \o <<"\n", "T", "i", "c", "k", " ", "R", "a", "t", "e", ":", " ", "0", "n", "s">>
    \o <<"\n", "R", "e", "n", "d", "e", "r", " ", "T", "i", "m", "e", ":", "0", "n", "s">>

(* The Game before Game::new has built it *)
NoGame ==
    [settings |-> Settings_default, debug_text |-> 0, terrain_id |-> 0,
     ui_camera |-> Camera2d(1, 1), player_camera |-> PerspectiveCamera(0),
     terrain |-> NoTerrain]

NoHist == [fatal |-> FALSE, retried |-> FALSE, exits |-> 0]

(* App::new (app/mod.rs:66-76): no game, nothing sent, no thread *)
App_new ==
    /\ app_game = "None"
    /\ events = <<>>
    /\ redraw_requested = FALSE
    /\ exited = FALSE
    /\ window = <<>>
    /\ game = NoGame
    /\ tasks = <<>>
    /\ channels = <<>>
    /\ hist = NoHist

----------------------------------------------------------------------------
(* Spec: the Renderer driven through its public operations *)

NoCall ==
    [op |-> "new", log |-> <<>>, exit |-> FALSE, ret |-> 0, id |-> 0,
     terrain |-> NoTerrain, text |-> <<>>, acquired |-> "", debug |-> FALSE,
     size |-> <<0, 0>>]

Init ==
    /\ \E size \in Sizes, wasm32 \in BOOLEAN :
          renderer = Renderer_new(size[1], size[2], wasm32)
    /\ lastCall = NoCall
    /\ tb_input = [tile_size |-> 1, heights |-> Heights]
    /\ tb_buffer = <<>>
    /\ App_new
    /\ BufferUnused
    /\ BuilderUnused

Resize ==
    \E size \in Sizes :
       /\ renderer' = Renderer_resize(renderer, size[1], size[2])
       /\ lastCall' = [NoCall EXCEPT !.op = "resize", !.size = size]
       /\ UNCHANGED <<indexVars, appVars, bufferVars, builderVars>>

Render ==
    \E acquired \in Acquisitions, ui \in UiCameras, player \in PlayerCameras,
       debug \in BOOLEAN :
       LET res == Renderer_render(renderer, acquired, ui, player, debug)
       IN /\ renderer' = res.r
          /\ lastCall' = [NoCall EXCEPT !.op = "render", !.log = res.log,
                                        !.exit = res.exit, !.acquired = acquired,
                                        !.debug = debug]
          /\ UNCHANGED <<indexVars, appVars, bufferVars, builderVars>>

BufferTerrain ==
    /\ Len(renderer.terrain_buffers) < MaxTerrains
    /\ \E terrain \in Terrains :
          LET res == Renderer_buffer_terrain(renderer, terrain)
          IN /\ renderer' = res.r
             /\ lastCall' = [NoCall EXCEPT !.op = "buffer_terrain", !.ret = res.id,
                                           !.terrain = terrain]
    /\ UNCHANGED <<indexVars, appVars, bufferVars, builderVars>>

UpdateTerrain ==
    /\ \E terrain_id \in 0..(Len(renderer.terrain_buffers) - 1), terrain \in Terrains :
          /\ renderer' = Renderer_update_terrain(renderer, terrain_id, terrain)
          /\ lastCall' = [NoCall EXCEPT !.op = "update_terrain", !.id = terrain_id,
                                        !.terrain = terrain]
    /\ UNCHANGED <<indexVars, appVars, bufferVars, builderVars>>

BufferText ==
    /\ Len(renderer.text_buffers) < MaxTexts
    /\ \E text \in Texts :
          LET res == Renderer_buffer_text(renderer, text)
          IN /\ renderer' = res.r
             /\ lastCall' = [NoCall EXCEPT !.op = "buffer_text", !.ret = res.id,
                                           !.text = text]
    /\ UNCHANGED <<indexVars, appVars, bufferVars, builderVars>>

UpdateText ==
    /\ \E text_id \in 0..(Len(renderer.text_buffers) - 1), text \in Texts :
          /\ renderer' = Renderer_update_text(renderer, text_id, text)
          /\ lastCall' = [NoCall EXCEPT !.op = "update_text", !.id = text_id,
                                        !.text = text]
    /\ UNCHANGED <<indexVars, appVars, bufferVars, builderVars>>

Next == Resize \/ Render \/ BufferTerrain \/ UpdateTerrain \/ BufferText \/ UpdateText

Spec == Init /\ [][Next]_vars

----------------------------------------------------------------------------
(* SpecIndex: TerrainBuffer::new applied to every tile size up to          *)
(* MaxTileSize and a few height scales.                                    *)

HeightScales == {0, 50}

TerrainBufferInputs ==
    [tile_size : 1..MaxTileSize,
     heights : [mountain : HeightScales, dune : HeightScales, spire : HeightScales]]

InitIndex ==
    /\ tb_input \in TerrainBufferInputs
    /\ tb_buffer = <<>>
    /\ renderer = Renderer_new(0, 0, FALSE)
    /\ lastCall = NoCall
    /\ App_new
    /\ BufferUnused
    /\ BuilderUnused

NewTerrainBuffer ==
    /\ tb_buffer = <<>>
    /\ tb_buffer' = << TerrainBuffer_new(tb_input.tile_size, tb_input.heights) >>
    /\ UNCHANGED <<tb_input, rendererVars, appVars, bufferVars, builderVars>>

NextIndex == NewTerrainBuffer

SpecIndex == InitIndex /\ [][NextIndex]_vars

----------------------------------------------------------------------------
(* SpecBuffer: one BackedBuffer driven through its operations *)

(* Longest sequence handed to one operation, longest buffer a batch may    *)
(* leave, largest capacity asked of with_capacity.                         *)
MaxBatch == 2
MaxLength == 4
MaxCapacity == 2

Elements == {1, 2}
ElementSeqs == UNION { [1..n -> Elements] : n \in 0..MaxBatch }

InitBuffer ==
    /\ \/ \E elements \in ElementSeqs :
             /\ bb = BackedBuffer_with_data(elements)
             /\ bb_hist = BufferCall("with_data", "none", elements, elements, <<>>,
                                     BackedBuffer_with_data(elements))
       \/ \E n \in 0..MaxCapacity :
             /\ bb = BackedBuffer_with_capacity(n, 0)
             /\ bb_hist = BufferCall("with_capacity", "none", <<>>, <<>>, <<>>,
                                     BackedBuffer_with_capacity(n, 0))
    /\ tb_input = [tile_size |-> 1, heights |-> Heights]
    /\ tb_buffer = <<>>
    /\ renderer = Renderer_new(0, 0, FALSE)
    /\ lastCall = NoCall
    /\ App_new
    /\ BuilderUnused

Replace ==
    /\ \E elements \in ElementSeqs, double \in BOOLEAN :
          LET grown_cap == IF double THEN Max(2 * bb.cap, Len(elements))
                                     ELSE Len(elements)
          IN /\ bb' = BackedBuffer_replace(bb, elements, 0, grown_cap)
             /\ bb_hist' = BufferCall("replace", bb_hist.op, elements, elements, <<>>, bb)
    /\ UNCHANGED <<rendererVars, indexVars, appVars, builderVars>>

Clear ==
    /\ bb' = BackedBuffer_clear(bb)
    /\ bb_hist' = BufferCall("clear", bb_hist.op, <<>>, <<>>, <<>>, bb)
    /\ UNCHANGED <<rendererVars, indexVars, appVars, builderVars>>

Batch ==
    /\ \E elements \in ElementSeqs :
          /\ bb.len + Len(elements) <= MaxLength
          /\ bb' = BackedBuffer_batch(bb, elements, 0)
          /\ bb_hist' = BufferCall("batch", bb_hist.op, elements, bb_hist.base,
                                   bb_hist.pushed \o elements, bb)
    /\ UNCHANGED <<rendererVars, indexVars, appVars, builderVars>>

NextBuffer == Replace \/ Clear \/ Batch

SpecBuffer == InitBuffer /\ [][NextBuffer]_vars

----------------------------------------------------------------------------
(* Claims about the typed buffer (SpecBuffer) *)

(* C11 as stated: after each batch closes, the buffer's length equals the  *)
(* number of elements pushed since the last clear or replace, and the      *)
(* range [0, length) holds exactly those pushed values in push order.      *)
C11_LengthIsPushedCount ==
    bb_hist.op = "batch" =>
        /\ bb.len = Len(bb_hist.pushed)
        /\ BackedBuffer_slice(bb) = bb_hist.pushed

(* C11, amended: after each batch closes, the buffer's length equals the   *)
(* length left by the last creation, clear or replace plus the number of   *)
(* elements pushed since, and the range [0, length) holds the contents     *)
(* left by that operation followed by the pushed values in push order,     *)
(* also when a push inside the batch made the buffer grow.                 *)
C11_BatchAppendsInOrder ==
    bb_hist.op = "batch" =>
        /\ bb.len = Len(bb_hist.base) + Len(bb_hist.pushed)
        /\ BackedBuffer_slice(bb) = bb_hist.base \o bb_hist.pushed

C11_Witness ==
    /\ bb_hist.op = "batch"
    /\ bb_hist.prev_op = "batch"
    /\ Len(bb_hist.arg) = MaxBatch
    /\ bb_hist.arg[1] # bb_hist.arg[2]
    /\ bb.cap > bb_hist.prev.cap
    /\ bb.len = MaxLength

(* C12: after any sequence of with_data, with_capacity, replace, clear and *)
(* batch pushes, the length is at most the capacity and the device buffer  *)
(* holds exactly capacity elements.                                        *)
C12_LengthWithinCapacity ==
    /\ bb.len <= bb.cap
    /\ Len(bb.data) = bb.cap

C12_Witness ==
    /\ bb_hist.op = "replace"
    /\ Len(bb_hist.arg) > bb_hist.prev.cap
    /\ bb.len = bb.cap
    /\ bb_hist.prev.len > 0

(* C13: the capacity never decreases, and when an append makes it grow     *)
(* every element written before the growth is unchanged afterwards.        *)
C13_Step ==
    /\ bb'.cap >= bb.cap
    /\ (bb_hist'.op = "batch" /\ bb'.cap > bb.cap) =>
           \A i \in 1..bb.len : bb'.data[i] = bb.data[i]

C13_GrowthKeepsContents == [][C13_Step]_vars

C13_Witness ==
    /\ bb_hist.op = "batch"
    /\ bb.cap > bb_hist.prev.cap
    /\ bb_hist.prev.len >= 2
    /\ bb_hist.prev.data[1] # bb_hist.prev.data[2]

(* C14: clear sets the length to 0 and leaves the capacity and the device  *)
(* contents as they were, and a batch of k elements right after a clear    *)
(* leaves length k, whatever the length before the clear.                  *)
C14_ClearThenBatch ==
    /\ bb_hist.op = "clear" =>
          /\ bb.len = 0
          /\ bb.cap = bb_hist.prev.cap
          /\ bb.data = bb_hist.prev.data
          /\ bb.alloc = bb_hist.prev.alloc
    /\ (bb_hist.op = "batch" /\ bb_hist.prev_op = "clear") =>
          bb.len = Len(bb_hist.arg)

C14_Witness ==
    /\ bb_hist.op = "batch"
    /\ bb_hist.prev_op = "clear"
    /\ Len(bb_hist.arg) = 1
    /\ bb.cap >= 2
    /\ bb.data[2] # 0

(* C15: replace with more elements than the capacity reallocates to a      *)
(* capacity of at least their number; otherwise the capacity and the       *)
(* allocation stay and the elements are overwritten in place; either way   *)
(* the length becomes their number and [0, length) holds them.             *)
C15_Replace ==
    bb_hist.op = "replace" =>
        LET n == Len(bb_hist.arg)
            prev == bb_hist.prev
        IN /\ bb.len = n
           /\ BackedBuffer_slice(bb) = bb_hist.arg
           /\ IF n > prev.cap
              THEN /\ bb.cap >= n
                   /\ bb.alloc = prev.alloc + 1
              ELSE /\ bb.cap = prev.cap
                   /\ bb.alloc = prev.alloc
                   /\ \A i \in (n + 1)..prev.cap : bb.data[i] = prev.data[i]

C15_Witness ==
    /\ bb_hist.op = "replace"
    /\ Len(bb_hist.arg) = MaxBatch
    /\ bb_hist.prev.cap = 1
    /\ bb_hist.prev.len = 1
    /\ bb.cap >= Len(bb_hist.arg)
    /\ bb.alloc = bb_hist.prev.alloc + 1

----------------------------------------------------------------------------
(* Claims about the index buffer (SpecIndex) *)

(* C7: for every tile size N >= 1 the index buffer TerrainBuffer::new      *)
(* generates holds exactly 6*(N-1)^2 indices, each strictly below N^2.     *)
C7_IndexCountAndRange ==
    tb_buffer # <<>> =>
        LET N == tb_input.tile_size
            idx == tb_buffer[1].indices
        IN /\ idx.len = 6 * (N - 1) * (N - 1)
           /\ Len(idx.data) = 6 * (N - 1) * (N - 1)
           /\ \A p \in 1..Len(idx.data) : idx.data[p] >= 0 /\ idx.data[p] < N * N

C7_Witness ==
    /\ tb_buffer # <<>>
    /\ tb_input.tile_size = MaxTileSize
    /\ tb_buffer[1].indices.len > 0

(* Grid coordinates of a vertex index, and twice the signed area of a      *)
(* triangle of vertex indices in those coordinates.                        *)
GridX(v, N) == v % N
GridZ(v, N) == v \div N
SignedArea2(a, b, c, N) ==
    (GridX(b, N) - GridX(a, N)) * (GridZ(c, N) - GridZ(a, N))
    - (GridZ(b, N) - GridZ(a, N)) * (GridX(c, N) - GridX(a, N))

CellTriangles(data, x, z, N) ==
    LET base == 6 * (z * (N - 1) + x)
    IN << <<data[base + 1], data[base + 2], data[base + 3]>>,
          <<data[base + 4], data[base + 5], data[base + 6]>> >>

CellCorners(x, z, N) ==
    { x + z * N, x + 1 + z * N, x + (z + 1) * N, x + 1 + (z + 1) * N }

SeqRange(s) == { s[p] : p \in 1..Len(s) }

(* C8: the six indices of every cell (x, z), 0 <= x, z < N-1, form two     *)
(* triangles that together use exactly the cell's four corners, share the  *)
(* cell's diagonal, and have the same non-zero signed area in grid         *)
(* coordinates; that signed area is the same for every cell.               *)
C8_TwoTrianglesPerCell ==
    tb_buffer # <<>> =>
        LET N == tb_input.tile_size
            data == tb_buffer[1].indices.data
        IN \A x \in 0..(N - 2), z \in 0..(N - 2) :
              LET t == CellTriangles(data, x, z, N)
                  shared == SeqRange(t[1]) \cap SeqRange(t[2])
                  first == CellTriangles(data, 0, 0, N)
              IN /\ SeqRange(t[1]) \cup SeqRange(t[2]) = CellCorners(x, z, N)
                 /\ Cardinality(SeqRange(t[1])) = 3
                 /\ Cardinality(SeqRange(t[2])) = 3
                 /\ Cardinality(shared) = 2
                 /\ \A u \in shared, v \in shared :
                       u # v => /\ GridX(u, N) # GridX(v, N)
                                /\ GridZ(u, N) # GridZ(v, N)
                 /\ SignedArea2(t[1][1], t[1][2], t[1][3], N) # 0
                 /\ SignedArea2(t[1][1], t[1][2], t[1][3], N)
                       = SignedArea2(t[2][1], t[2][2], t[2][3], N)
                 /\ SignedArea2(t[1][1], t[1][2], t[1][3], N)
                       = SignedArea2(first[1][1], first[1][2], first[1][3], N)

C8_Witness ==
    /\ tb_buffer # <<>>
    /\ tb_input.tile_size >= 3
    /\ Len(tb_buffer[1].indices.data) = 6 * (tb_input.tile_size - 1) * (tb_input.tile_size - 1)

----------------------------------------------------------------------------
(* Claims about Renderer::render (Spec) *)

Positions(log, Test(_)) == { p \in 1..Len(log) : Test(log[p]) }

IsCameraWrite(c) == c.op = "write_buffer"
IsUiCameraWrite(c) == c.op = "write_buffer" /\ c.res = "ui_camera_buffer"
IsMainCameraWrite(c) == c.op = "write_buffer" /\ c.res = "main_camera_buffer"
IsPassCall(c) == c.pass # ""
IsMainPassCall(c) == c.pass = "main_pass"
IsUiPassCall(c) == c.pass = "ui_pass"
IsDraw(c) == c.op = "draw_indexed"
IsTerrainDraw(c) == c.op = "draw_indexed" /\ c.res \in {"triplanar_pipeline", "debug_pipeline"}
IsTextDraw(c) == c.op = "draw_indexed" /\ c.res = "text_pipeline"
IsSubmit(c) == c.op = "submit"
IsPresent(c) == c.op = "present"
IsExit(c) == c.op = "app.exit"
IsFrameStage(c) == IsCameraWrite(c) \/ IsPassCall(c) \/ IsSubmit(c) \/ IsPresent(c)

Before(S, T) == \A p \in S, q \in T : p < q

Rendered == lastCall.op = "render"
FrameAcquired == lastCall.op = "render" /\ lastCall.acquired = "Ok"

(* C1: in every render call that acquires its frame, both camera uniform   *)
(* buffers are written exactly once, then the world pass records every     *)
(* terrain draw, then the UI pass records every text draw, then the        *)
(* commands are submitted, then the frame is presented; no terrain draw    *)
(* follows a text draw and no draw precedes either camera write.           *)
C1_FrameOrder ==
    FrameAcquired =>
        LET log == lastCall.log
            writes == Positions(log, IsCameraWrite)
            main == Positions(log, IsMainPassCall)
            ui == Positions(log, IsUiPassCall)
            submit == Positions(log, IsSubmit)
            present == Positions(log, IsPresent)
        IN /\ Cardinality(Positions(log, IsUiCameraWrite)) = 1
           /\ Cardinality(Positions(log, IsMainCameraWrite)) = 1
           /\ Cardinality(writes) = 2
           /\ main # {} /\ ui # {}
           /\ Before(writes, main)
           /\ Before(main, ui)
           /\ Before(ui, submit)
           /\ submit = {Len(log) - 1}
           /\ present = {Len(log)}
           /\ Positions(log, IsTerrainDraw) \subseteq main
           /\ Positions(log, IsTextDraw) \subseteq ui
           /\ Positions(log, IsDraw) =
                 Positions(log, IsTerrainDraw) \cup Positions(log, IsTextDraw)
           /\ Before(Positions(log, IsTerrainDraw), Positions(log, IsTextDraw))
           /\ Before(writes, Positions(log, IsDraw))

C1_Witness ==
    /\ FrameAcquired
    /\ Cardinality(Positions(lastCall.log, IsTerrainDraw)) = 2
    /\ Cardinality(Positions(lastCall.log, IsTextDraw)) = 1

CompleteFrame(log) ==
    /\ Cardinality(Positions(log, IsCameraWrite)) = 2
    /\ \E p \in 1..Len(log) : log[p].op = "begin_render_pass" /\ log[p].pass = "main_pass"
    /\ \E p \in 1..Len(log) : log[p].op = "end_render_pass" /\ log[p].pass = "main_pass"
    /\ \E p \in 1..Len(log) : log[p].op = "begin_render_pass" /\ log[p].pass = "ui_pass"
    /\ \E p \in 1..Len(log) : log[p].op = "end_render_pass" /\ log[p].pass = "ui_pass"
    /\ Len(log) >= 2
    /\ IsSubmit(log[Len(log) - 1])
    /\ IsPresent(log[Len(log)])
    /\ Positions(log, IsExit) = {}

NoFrameStage(log) == Positions(log, IsFrameStage) = {}

(* What Renderer::render may not touch when it skips a frame: everything   *)
(* but the is_surface_configured flag.                                     *)
RendererData(r) ==
    [config |-> r.config, depth_buffer |-> r.depth_buffer,
     terrain_buffers |-> r.terrain_buffers, text_buffers |-> r.text_buffers,
     ui_camera_buffer |-> r.ui_camera_buffer, ui_camera_binding |-> r.ui_camera_binding,
     main_camera_buffer |-> r.main_camera_buffer,
     main_camera_binding |-> r.main_camera_binding]

(* C2: a render call whose acquisition fails with Outdated writes no       *)
(* camera uniform, records no pass, submits and presents nothing, signals  *)
(* no exit, and leaves the registries, the buffers, the surface            *)
(* configuration and the depth target unchanged; a render call that        *)
(* follows it and acquires its frame completes every stage; and every      *)
(* render call ends with the whole frame done or with none of its stages.  *)
C2_Step ==
    lastCall'.op = "render" =>
        /\ lastCall'.acquired = "Outdated" =>
              /\ NoFrameStage(lastCall'.log)
              /\ ~lastCall'.exit
              /\ Positions(lastCall'.log, IsExit) = {}
              /\ RendererData(renderer') = RendererData(renderer)
        /\ (Rendered /\ lastCall.acquired = "Outdated" /\ lastCall'.acquired = "Ok") =>
              CompleteFrame(lastCall'.log)
        /\ CompleteFrame(lastCall'.log) \/ NoFrameStage(lastCall'.log)

C2_OutdatedSkipsFrame == [][C2_Step]_vars

C2_Witness ==
    /\ Rendered
    /\ lastCall.acquired = "Outdated"
    /\ Len(renderer.terrain_buffers) = 2
    /\ Len(renderer.text_buffers) = 1
    /\ \E i \in 1..2 : renderer.terrain_buffers[i].tiles.len > 0
    /\ renderer.main_camera_buffer.data[1] # CameraData_IDENTITY

TerrainDrawsOf(log, id) ==
    { p \in 1..Len(log) : IsTerrainDraw(log[p]) /\ log[p].id = id }
TextDrawsOf(log, id) ==
    { p \in 1..Len(log) : IsTextDraw(log[p]) /\ log[p].id = id }

(* C4: in every completed frame each registered terrain with at least one  *)
(* buffered instance gets exactly one draw call, in the world pass, each   *)
(* buffered text with at least one glyph gets exactly one draw call, in    *)
(* the UI pass, and only terrains without instances and texts without      *)
(* glyphs get none.                                                        *)
C4_NoDrawDropped ==
    FrameAcquired =>
        LET log == lastCall.log
        IN /\ \A i \in 1..Len(renderer.terrain_buffers) :
                 LET draws == TerrainDrawsOf(log, i - 1)
                 IN /\ Cardinality(draws) =
                          (IF renderer.terrain_buffers[i].tiles.len >= 1 THEN 1 ELSE 0)
                    /\ \A p \in draws : log[p].pass = "main_pass"
           /\ \A i \in 1..Len(renderer.text_buffers) :
                 LET draws == TextDrawsOf(log, i - 1)
                 IN /\ Cardinality(draws) =
                          (IF renderer.text_buffers[i].glyphs >= 1 THEN 1 ELSE 0)
                    /\ \A p \in draws : log[p].pass = "ui_pass"
           /\ \A p \in Positions(log, IsTerrainDraw) :
                 log[p].id \in 0..(Len(renderer.terrain_buffers) - 1)
           /\ \A p \in Positions(log, IsTextDraw) :
                 log[p].id \in 0..(Len(renderer.text_buffers) - 1)

C4_Witness ==
    /\ FrameAcquired
    /\ Len(renderer.terrain_buffers) = 2
    /\ renderer.terrain_buffers[1].tiles.len = 0
    /\ renderer.terrain_buffers[2].tiles.len >= 1
    /\ Len(renderer.text_buffers) = 1
    /\ renderer.text_buffers[1].glyphs >= 1
    /\ Cardinality(Positions(lastCall.log, IsDraw)) = 2

(* C5: for a terrain with zero buffered instances the draw makes no call   *)
(* on the render pass at all, neither set_pipeline, set_bind_group,        *)
(* set_index_buffer, set_vertex_buffer nor draw_indexed, in the shaded     *)
(* mode (TerrainPipeline::draw) and in the debug mode                      *)
(* (TerrainPipeline::debug).                                               *)
C5_ZeroInstancesNoCall ==
    FrameAcquired =>
        \A i \in 1..Len(renderer.terrain_buffers) :
           renderer.terrain_buffers[i].tiles.len = 0 =>
              { p \in 1..Len(lastCall.log) :
                   /\ lastCall.log[p].pass = "main_pass"
                   /\ lastCall.log[p].id = i - 1 } = {}

C5_Witness ==
    /\ FrameAcquired
    /\ lastCall.debug
    /\ \E i \in 1..Len(renderer.terrain_buffers) :
          /\ renderer.terrain_buffers[i].tiles.len = 0
          /\ renderer.terrain_buffers[i].tiles.data[2] # ZeroInstance
    /\ \E i \in 1..Len(renderer.terrain_buffers) :
          renderer.terrain_buffers[i].tiles.len > 0

(* C6: a terrain with k >= 1 buffered instances gets exactly one indexed,  *)
(* instanced draw call, over the indices 0..(length of its index buffer)   *)
(* and the instances 0..k; a terrain registered with tile size 4 and       *)
(* updated with the single tile (0,0) is drawn with 54 indices and 1       *)
(* instance.                                                               *)
C6_OneInstancedDraw ==
    FrameAcquired =>
        \A i \in 1..Len(renderer.terrain_buffers) :
           LET buffer == renderer.terrain_buffers[i]
               draws == TerrainDrawsOf(lastCall.log, i - 1)
           IN buffer.tiles.len >= 1 =>
                 /\ Cardinality(draws) = 1
                 /\ \A p \in draws :
                       /\ lastCall.log[p].n = Len(buffer.indices.data)
                       /\ lastCall.log[p].k = buffer.tiles.len
                       /\ (/\ buffer.terrain_data.data[1].tile_size = 4
                           /\ BackedBuffer_slice(buffer.tiles) = << [position |-> <<0, 0>>] >>)
                          => lastCall.log[p].n = 54 /\ lastCall.log[p].k = 1

C6_Witness ==
    /\ FrameAcquired
    /\ \E i \in 1..Len(renderer.terrain_buffers) :
          /\ renderer.terrain_buffers[i].terrain_data.data[1].tile_size = 4
          /\ BackedBuffer_slice(renderer.terrain_buffers[i].tiles) = << [position |-> <<0, 0>>] >>
          /\ \E p \in TerrainDrawsOf(lastCall.log, i - 1) :
                lastCall.log[p].n = 54 /\ lastCall.log[p].k = 1

----------------------------------------------------------------------------
(* Claims about the registries and the instance buffers (Spec) *)

TileOrigin(tile, tile_size) ==
    [position |-> << tile.id[1] * (tile_size - 1), tile.id[2] * (tile_size - 1) >>]

OriginsOf(tiles, tile_size) ==
    [p \in 1..Len(tiles) |-> TileOrigin(tiles[p], tile_size)]

InWindow(tile) ==
    /\ 0 <= tile.id[1] /\ tile.id[1] < 2
    /\ 0 <= tile.id[2] /\ tile.id[2] < 2

UpdatedTiles == renderer.terrain_buffers[lastCall.id + 1].tiles

IsPrefix(s, t) == Len(s) <= Len(t) /\ SubSeq(t, 1, Len(s)) = s

(* C10: the terrain and text registries are append-only.  buffer_terrain   *)
(* and buffer_text return the number of entries registered before the      *)
(* call and add their entry at that id; no operation shortens a registry   *)
(* or moves an entry; the entry at an id is the one its registration       *)
(* created, changed afterwards only by an update of that very id (its      *)
(* instances for a terrain, its geometry for a text).                      *)
C10_Step ==
    /\ Len(renderer'.terrain_buffers) >= Len(renderer.terrain_buffers)
    /\ Len(renderer'.text_buffers) >= Len(renderer.text_buffers)
    /\ lastCall'.op = "buffer_terrain" =>
          /\ lastCall'.ret = Len(renderer.terrain_buffers)
          /\ Len(renderer'.terrain_buffers) = Len(renderer.terrain_buffers) + 1
          /\ renderer'.terrain_buffers[lastCall'.ret + 1].terrain_data.data[1].tile_size
                = lastCall'.terrain.tile_size
          /\ renderer'.terrain_buffers[lastCall'.ret + 1].tiles.len = 0
    /\ lastCall'.op = "buffer_text" =>
          /\ lastCall'.ret = Len(renderer.text_buffers)
          /\ Len(renderer'.text_buffers) = Len(renderer.text_buffers) + 1
          /\ renderer'.text_buffers[lastCall'.ret + 1].text = lastCall'.text
    /\ lastCall'.op # "buffer_terrain" =>
          Len(renderer'.terrain_buffers) = Len(renderer.terrain_buffers)
    /\ lastCall'.op # "buffer_text" =>
          Len(renderer'.text_buffers) = Len(renderer.text_buffers)
    /\ \A i \in 1..Len(renderer.terrain_buffers) :
          /\ renderer'.terrain_buffers[i].indices = renderer.terrain_buffers[i].indices
          /\ renderer'.terrain_buffers[i].terrain_data
                = renderer.terrain_buffers[i].terrain_data
          /\ renderer'.terrain_buffers[i].binding = renderer.terrain_buffers[i].binding
          /\ (lastCall'.op # "update_terrain" \/ lastCall'.id # i - 1) =>
                renderer'.terrain_buffers[i] = renderer.terrain_buffers[i]
    /\ \A i \in 1..Len(renderer.text_buffers) :
          (lastCall'.op # "update_text" \/ lastCall'.id # i - 1) =>
             renderer'.text_buffers[i] = renderer.text_buffers[i]

----------------------------------------------------------------------------
(* SpecApp: the event loop of App, the threads it spawns and the Game.     *)
(* The process ends when the event loop returns (lib.rs:21-23), so nothing *)
(* steps once exited is set.                                               *)

(* AppController::exit (app/mod.rs:255-257) *)
AppController_exit(evs) == Append(evs, AppEvent("Exit", "", 0, Settings_default))

(* AppController::spawn_task (app/mod.rs:259-266) *)
AppController_spawn_task(evs, data) == Append(evs, AppEvent("Task", "", 0, data))

(* A variant of the request that sends the sender of the newest existing   *)
(* channel instead of creating one.                                        *)
AppController_request_sharedChannel(chans, type, path, data) ==
    /\ channels' = IF chans = <<>> THEN <<"empty">> ELSE chans
    /\ events' = Append(events, AppEvent(type, path,
                                         IF chans = <<>> THEN 1 ELSE Len(chans), data))

(* AppController::save_string, load_string and load_binary                 *)
(* (app/mod.rs:268-293) up to their await: a new bounded(1) channel, and   *)
(* the request sent with its sender.                                       *)
AppController_request(chans, type, path, data) ==
    /\ channels' = Append(chans, "empty")
    /\ events' = Append(events, AppEvent(type, path, Len(chans) + 1, data))

(* receiver.recv().await (app/mod.rs:274,283,292) has a result to return,  *)
(* and takes it; the channel is dropped with its receiver.                 *)
Received(t) ==
    tasks[t].chan # 0 /\ channels[tasks[t].chan] \notin {"empty", "closed"}

Closed(t) == [channels EXCEPT ![tasks[t].chan] = "closed"]

AtPc(t, kind, pc) == tasks[t].kind = kind /\ tasks[t].pc = pc

(* App::resumed (app/mod.rs:89-102): the window, and the thread that       *)
(* creates the game.                                                       *)
Resumed ==
    /\ ~exited
    /\ window = <<>>
    /\ \E size \in Sizes : window' = size
    /\ tasks' = Append(tasks, Task("init", "start", "", 0, Settings_default))
    /\ UNCHANGED <<rendererVars, indexVars, bufferVars, builderVars, app_game, events, redraw_requested,
                   exited, game, channels, hist>>

(* Game::new (game/mod.rs:91): the settings are asked for *)
Game_new_load_settings ==
    /\ ~exited
    /\ \E t \in DOMAIN tasks :
          /\ AtPc(t, "init", "start")
          /\ AppController_request(channels, "LoadString", "settings.json", Settings_default)
          /\ tasks' = [tasks EXCEPT ![t].pc = "settings",
                                    ![t].chan = Len(channels) + 1]
    /\ UNCHANGED <<rendererVars, indexVars, bufferVars, builderVars, app_game, redraw_requested, exited,
                   window, game, hist>>

(* Mutant of Game_new_settings_loaded: a settings file that cannot be read *)
(* ends Game::new with the error.                                          *)
Game_new_settings_loaded_errorPropagates ==
    /\ ~exited
    /\ \E t \in DOMAIN tasks :
          /\ AtPc(t, "init", "settings")
          /\ Received(t)
          /\ LET loaded == channels[tasks[t].chan]
             IN /\ channels' = Closed(t)
                /\ IF loaded # "ok"
                   THEN /\ tasks' = [tasks EXCEPT ![t].pc = "panicked"]
                        /\ UNCHANGED game
                   ELSE /\ game' = [game EXCEPT !.settings = SettingsFile]
                        /\ tasks' = [tasks EXCEPT ![t].pc = "renderer", ![t].chan = 0]
    /\ UNCHANGED <<rendererVars, indexVars, bufferVars, builderVars, app_game, events,
                   redraw_requested, exited, window, hist>>

(* Game::new (game/mod.rs:91-94): the settings have arrived.  Settings     *)
(* that do not parse end the task with an error, which App::spawn_task     *)
(* unwraps; settings that could not be read are the default ones.          *)
Game_new_settings_loaded ==
    /\ ~exited
    /\ \E t \in DOMAIN tasks :
          /\ AtPc(t, "init", "settings")
          /\ Received(t)
          /\ LET loaded == channels[tasks[t].chan]
             IN /\ channels' = Closed(t)
                /\ IF loaded = "malformed"
                   THEN /\ tasks' = [tasks EXCEPT ![t].pc = "panicked"]
                        /\ UNCHANGED game
                   ELSE /\ game' = [game EXCEPT !.settings =
                                       IF loaded = "ok" THEN SettingsFile
                                                        ELSE Settings_default]
                        /\ tasks' = [tasks EXCEPT ![t].pc = "renderer", ![t].chan = 0]
    /\ UNCHANGED <<rendererVars, indexVars, bufferVars, builderVars, app_game, events,
                   redraw_requested, exited, window, hist>>

(* Renderer::new (render/mod.rs:55-101) up to the request for the font: a  *)
(* surface, adapter or device that cannot be had ends the task with an     *)
(* error.                                                                  *)
Renderer_new_device ==
    /\ ~exited
    /\ \E t \in DOMAIN tasks, device_ok \in BOOLEAN :
          /\ AtPc(t, "init", "renderer")
          /\ IF ~device_ok
             THEN /\ tasks' = [tasks EXCEPT ![t].pc = "panicked"]
                  /\ UNCHANGED <<events, channels>>
             ELSE /\ AppController_request(channels, "LoadBinary",
                                           "fonts/OpenSans MSDF.zip", Settings_default)
                  /\ tasks' = [tasks EXCEPT ![t].pc = "font",
                                            ![t].chan = Len(channels) + 1]
    /\ UNCHANGED <<rendererVars, indexVars, bufferVars, builderVars, app_game,
                   redraw_requested, exited, window, game, hist>>

(* Renderer::new (render/mod.rs:101-155): the font, the text shader and    *)
(* the terrain shader (render/terrain.rs:124) are required; each is asked  *)
(* for when the one before has arrived.                                    *)
RequiredLoads ==
    << [pc |-> "font", next |-> "text_shader", type |-> "LoadString",
        path |-> "shaders/text.wgsl"],
       [pc |-> "text_shader", next |-> "terrain_shader", type |-> "LoadString",
        path |-> "shaders/terrain.wgsl"] >>

Renderer_new_asset_loaded ==
    /\ ~exited
    /\ \E t \in DOMAIN tasks, k \in DOMAIN RequiredLoads :
          /\ AtPc(t, "init", RequiredLoads[k].pc)
          /\ Received(t)
          /\ IF channels[tasks[t].chan] # "ok"
             THEN /\ tasks' = [tasks EXCEPT ![t].pc = "panicked"]
                  /\ channels' = Closed(t)
                  /\ UNCHANGED events
             ELSE /\ AppController_request(Closed(t), RequiredLoads[k].type,
                                           RequiredLoads[k].path, Settings_default)
                  /\ tasks' = [tasks EXCEPT ![t].pc = RequiredLoads[k].next,
                                            ![t].chan = Len(channels) + 1]
    /\ UNCHANGED <<rendererVars, indexVars, bufferVars, builderVars, app_game, redraw_requested, exited,
                   window, game, hist>>

(* Renderer::new returns (render/mod.rs:155-209); Game::new buffers the    *)
(* debug text (game/mod.rs:103-113) and World::new builds the cameras and  *)
(* asks for the terrain (world/mod.rs:27-41).                              *)
Game_new_renderer_created ==
    /\ ~exited
    /\ \E t \in DOMAIN tasks :
          /\ AtPc(t, "init", "terrain_shader")
          /\ Received(t)
          /\ IF channels[tasks[t].chan] # "ok"
             THEN /\ tasks' = [tasks EXCEPT ![t].pc = "panicked"]
                  /\ channels' = Closed(t)
                  /\ UNCHANGED <<events, game, renderer>>
             ELSE LET res == Renderer_buffer_text(
                                 Renderer_new(window[1], window[2], FALSE),
                                 InitialDebugText(game.settings.debug_mode_active))
                  IN /\ renderer' = res.r
                     /\ game' = [game EXCEPT
                                    !.debug_text = res.id,
                                    !.ui_camera = Camera2d(Max(window[1], 1),
                                                           Max(window[2], 1)),
                                    !.player_camera = PerspectiveCamera(0)]
                     /\ AppController_request(Closed(t), "LoadString",
                                              "terrains/default.json", Settings_default)
                     /\ tasks' = [tasks EXCEPT ![t].pc = "terrain",
                                               ![t].chan = Len(channels) + 1]
    /\ UNCHANGED <<lastCall, indexVars, bufferVars, builderVars, app_game, redraw_requested, exited,
                   window, hist>>

(* World::new (world/mod.rs:41-53), then Game::new (game/mod.rs:123-143)   *)
(* and the task of resumed (app/mod.rs:97-100): a terrain file that does   *)
(* not parse panics, a missing one is generated; the game is sent.         *)
Game_new_terrain_loaded ==
    /\ ~exited
    /\ \E t \in DOMAIN tasks :
          /\ AtPc(t, "init", "terrain")
          /\ Received(t)
          /\ LET loaded == channels[tasks[t].chan]
                 terrain == IF loaded = "ok" THEN TerrainFile
                            ELSE Terrain_generate(game.settings.terrain_size,
                                                  game.settings.tile_size, Heights)
                 res == Renderer_buffer_terrain(renderer, terrain)
             IN /\ channels' = Closed(t)
                /\ IF loaded = "malformed"
                   THEN /\ tasks' = [tasks EXCEPT ![t].pc = "panicked"]
                        /\ UNCHANGED <<events, game, renderer>>
                   ELSE /\ renderer' = Renderer_update_terrain(res.r, res.id, terrain)
                        /\ game' = [game EXCEPT !.terrain = terrain,
                                                !.terrain_id = res.id]
                        /\ events' = Append(events, AppEvent("GameStarted", "", 0,
                                                             Settings_default))
                        /\ tasks' = [tasks EXCEPT ![t].pc = "done"]
    /\ UNCHANGED <<lastCall, indexVars, bufferVars, builderVars, app_game, redraw_requested, exited,
                   window, hist>>

(* App::user_event (app/mod.rs:126-187), one action per arm; the proxy     *)
(* delivers the events in the order they were sent.                        *)
UserEvent_GameStarted ==
    /\ ~exited
    /\ events # <<>> /\ Head(events).type = "GameStarted"
    /\ events' = Tail(events)
    /\ redraw_requested' = TRUE
    /\ app_game' = "Some"
    /\ UNCHANGED <<rendererVars, indexVars, bufferVars, builderVars, exited, window, game, tasks,
                   channels, hist>>

UserEvent_Exit ==
    /\ ~exited
    /\ events # <<>> /\ Head(events).type = "Exit"
    /\ events' = Tail(events)
    /\ exited' = TRUE
    /\ UNCHANGED <<rendererVars, indexVars, bufferVars, builderVars, app_game, redraw_requested, window,
                   game, tasks, channels, hist>>

UserEvent_Task ==
    /\ ~exited
    /\ events # <<>> /\ Head(events).type = "Task"
    /\ events' = Tail(events)
    /\ tasks' = Append(tasks, Task("exit", "start", "", 0, Head(events).data))
    /\ UNCHANGED <<rendererVars, indexVars, bufferVars, builderVars, app_game, redraw_requested, exited,
                   window, game, channels, hist>>

(* A variant in which resumed awaits Game::new on the event loop's own     *)
(* thread: no load or save event is handled until the init task has ended. *)
UserEvent_LoadSave_initOnEventLoop ==
    /\ ~exited
    /\ \A t \in DOMAIN tasks :
          tasks[t].kind = "init" => tasks[t].pc \in {"done", "panicked"}
    /\ events # <<>>
    /\ Head(events).type \in {"LoadString", "LoadBinary", "SaveString"}
    /\ events' = Tail(events)
    /\ tasks' = Append(tasks, Task(Head(events).type, "start", Head(events).path,
                                   Head(events).chan, Head(events).data))
    /\ UNCHANGED <<rendererVars, indexVars, bufferVars, builderVars, app_game, redraw_requested, exited,
                   window, game, channels, hist>>

UserEvent_LoadSave ==
    /\ ~exited
    /\ events # <<>>
    /\ Head(events).type \in {"LoadString", "LoadBinary", "SaveString"}
    /\ events' = Tail(events)
    /\ tasks' = Append(tasks, Task(Head(events).type, "start", Head(events).path,
                                   Head(events).chan, Head(events).data))
    /\ UNCHANGED <<rendererVars, indexVars, bufferVars, builderVars, app_game, redraw_requested, exited,
                   window, game, channels, hist>>

(* The thread of a LoadString, LoadBinary or SaveString event              *)
(* (app/mod.rs:136-173): the file is read or written and the result sent.  *)
FileTask ==
    /\ ~exited
    /\ \E t \in DOMAIN tasks :
          /\ tasks[t].kind \in {"LoadString", "LoadBinary", "SaveString"}
          /\ tasks[t].pc = "start"
          /\ \E outcome \in FileOutcomes :
                /\ tasks[t].kind = "SaveString" => outcome # "malformed"
                /\ channels' = [channels EXCEPT ![tasks[t].chan] = outcome]
          /\ tasks' = [tasks EXCEPT ![t].pc = "done"]
    /\ UNCHANGED <<rendererVars, indexVars, bufferVars, builderVars, app_game, events, redraw_requested,
                   exited, window, game, hist>>

(* The task of Game::exit (game/mod.rs:258-263): the save is asked for *)
ExitTask_save ==
    /\ ~exited
    /\ \E t \in DOMAIN tasks :
          /\ AtPc(t, "exit", "start")
          /\ AppController_request(channels, "SaveString", "settings.json", tasks[t].data)
          /\ tasks' = [tasks EXCEPT ![t].pc = "save",
                                    ![t].chan = Len(channels) + 1]
    /\ UNCHANGED <<rendererVars, indexVars, bufferVars, builderVars, app_game, redraw_requested, exited,
                   window, game, hist>>

(* A variant of ExitTask_saved that sends Exit whatever the save returned *)
ExitTask_saved_ignoresResult ==
    /\ ~exited
    /\ \E t \in DOMAIN tasks :
          /\ AtPc(t, "exit", "save")
          /\ Received(t)
          /\ channels' = Closed(t)
          /\ events' = AppController_exit(events)
          /\ tasks' = [tasks EXCEPT ![t].pc = "done"]
    /\ UNCHANGED <<rendererVars, indexVars, bufferVars, builderVars, app_game, redraw_requested, exited,
                   window, game, hist>>

(* ... and once it has answered, the exit is sent; a failed save ends the  *)
(* task with an error, which App::spawn_task unwraps.                      *)
ExitTask_saved ==
    /\ ~exited
    /\ \E t \in DOMAIN tasks :
          /\ AtPc(t, "exit", "save")
          /\ Received(t)
          /\ channels' = Closed(t)
          /\ IF channels[tasks[t].chan] = "ok"
             THEN /\ events' = AppController_exit(events)
                  /\ tasks' = [tasks EXCEPT ![t].pc = "done"]
             ELSE /\ tasks' = [tasks EXCEPT ![t].pc = "panicked"]
                  /\ UNCHANGED events
    /\ UNCHANGED <<rendererVars, indexVars, bufferVars, builderVars, app_game, redraw_requested, exited,
                   window, game, hist>>

(* Game::exit (game/mod.rs:254-265) *)
Game_exit ==
    /\ hist.exits < MaxExits
    /\ events' = AppController_spawn_task(events, game.settings)
    /\ hist' = [hist EXCEPT !.exits = @ + 1]

(* Game::render (game/mod.rs:152-193): the next redraw is requested before *)
(* the frame is rendered; Renderer::render sends Exit on a fatal error.    *)
(* The camera controller leaves the player camera where it is while no     *)
(* movement key is held.                                                   *)
Game_render(acquired) ==
    LET text == FrameDebugText(game.settings.debug_mode_active)
        res == Renderer_render(Renderer_update_text(renderer, game.debug_text, text),
                               acquired, game.ui_camera, game.player_camera,
                               game.settings.debug_mode_active)
    IN /\ redraw_requested' = TRUE
       /\ UNCHANGED game
       /\ renderer' = res.r
       /\ lastCall' = [NoCall EXCEPT !.op = "render", !.log = res.log,
                                     !.exit = res.exit, !.acquired = acquired,
                                     !.debug = game.settings.debug_mode_active]
       /\ events' = IF res.exit THEN AppController_exit(events) ELSE events
       /\ hist' = [hist EXCEPT !.fatal = @ \/ res.exit,
                               !.retried = @ \/ hist.fatal]

(* Game::resize (game/mod.rs:146-150) and World::resize (world/mod.rs:55-58) *)
Game_resize(width, height) ==
    /\ renderer' = Renderer_resize(renderer, width, height)
    /\ game' = [game EXCEPT !.ui_camera = Camera2d(width, height)]
    /\ lastCall' = [NoCall EXCEPT !.op = "resize", !.size = <<width, height>>]

(* App::window_event (app/mod.rs:189-224), one action per arm; every arm   *)
(* returns at once while there is no game.                                 *)
WindowEvent_RedrawRequested ==
    /\ ~exited
    /\ app_game = "Some"
    /\ redraw_requested
    /\ Len(events) < MaxEvents
    /\ \E acquired \in Acquisitions : Game_render(acquired)
    /\ UNCHANGED <<indexVars, bufferVars, builderVars, app_game, exited, window, tasks, channels>>

WindowEvent_Resized ==
    /\ ~exited
    /\ window # <<>>
    /\ \E size \in Sizes :
          /\ window' = size
          /\ IF app_game = "Some"
             THEN Game_resize(size[1], size[2])
             ELSE UNCHANGED <<renderer, lastCall, game>>
    /\ UNCHANGED <<indexVars, bufferVars, builderVars, app_game, events, redraw_requested, exited, tasks,
                   channels, hist>>

WindowEvent_CloseRequested ==
    /\ ~exited
    /\ app_game = "Some"
    /\ Game_exit
    /\ UNCHANGED <<rendererVars, indexVars, bufferVars, builderVars, app_game, redraw_requested, exited,
                   window, game, tasks, channels>>

(* Game::handle_key (game/mod.rs:209-222) for the keys the camera          *)
(* controller leaves alone.  KeyF only switches the window between         *)
(* fullscreen and windowed and notes it in settings.fullscreen, which no   *)
(* other code reads; the model leaves the field as it was loaded.          *)
WindowEvent_KeyboardInput ==
    /\ ~exited
    /\ app_game = "Some"
    /\ \E key \in {"Escape", "Digit0"}, is_pressed \in BOOLEAN :
          IF key = "Escape"
          THEN /\ Game_exit
               /\ UNCHANGED game
          ELSE /\ is_pressed
               /\ game' = [game EXCEPT !.settings.debug_mode_active = ~@]
               /\ UNCHANGED <<events, hist>>
    /\ UNCHANGED <<rendererVars, indexVars, bufferVars, builderVars, app_game, redraw_requested, exited,
                   window, tasks, channels>>

InitApp ==
    /\ App_new
    /\ BufferUnused
    /\ BuilderUnused
    /\ renderer = Renderer_new(0, 0, FALSE)
    /\ lastCall = NoCall
    /\ tb_input = [tile_size |-> 1, heights |-> Heights]
    /\ tb_buffer = <<>>

NextApp ==
    \/ Resumed
    \/ Game_new_load_settings
    \/ Game_new_settings_loaded
    \/ Renderer_new_device
    \/ Renderer_new_asset_loaded
    \/ Game_new_renderer_created
    \/ Game_new_terrain_loaded
    \/ UserEvent_GameStarted
    \/ UserEvent_Exit
    \/ UserEvent_Task
    \/ UserEvent_LoadSave
    \/ FileTask
    \/ ExitTask_save
    \/ ExitTask_saved
    \/ WindowEvent_RedrawRequested
    \/ WindowEvent_Resized
    \/ WindowEvent_CloseRequested
    \/ WindowEvent_KeyboardInput

SpecApp == InitApp /\ [][NextApp]_vars

(* SpecStartup: start-up and shutdown without the frames.  The threads     *)
(* that App::spawn_task started run on (app/mod.rs:82-84) and the event    *)
(* loop delivers the events sent through the proxy; what the window        *)
(* reports is up to the user.                                              *)
NextStartup ==
    \/ Resumed
    \/ Game_new_load_settings
    \/ Game_new_settings_loaded
    \/ Renderer_new_device
    \/ Renderer_new_asset_loaded
    \/ Game_new_renderer_created
    \/ Game_new_terrain_loaded
    \/ UserEvent_GameStarted
    \/ UserEvent_Exit
    \/ UserEvent_Task
    \/ UserEvent_LoadSave
    \/ FileTask
    \/ ExitTask_save
    \/ ExitTask_saved
    \/ WindowEvent_Resized
    \/ WindowEvent_CloseRequested

StartupFairness ==
    /\ WF_vars(Resumed)
    /\ WF_vars(Game_new_load_settings)
    /\ WF_vars(Game_new_settings_loaded)
    /\ WF_vars(Renderer_new_device)
    /\ WF_vars(Renderer_new_asset_loaded)
    /\ WF_vars(Game_new_renderer_created)
    /\ WF_vars(Game_new_terrain_loaded)
    /\ WF_vars(UserEvent_GameStarted)
    /\ WF_vars(UserEvent_Exit)
    /\ WF_vars(UserEvent_Task)
    /\ WF_vars(UserEvent_LoadSave)
    /\ WF_vars(FileTask)
    /\ WF_vars(ExitTask_save)
    /\ WF_vars(ExitTask_saved)

SpecStartup == InitApp /\ [][NextStartup]_vars /\ StartupFairness

(* SpecFrames: the whole event loop of SpecApp, frames included.  The init *)
(* thread and the file threads run on (app/mod.rs:82-84, 136-173), every   *)
(* file operation returning, and the event loop delivers the load requests *)
(* and GameStarted; nothing is assumed of the window or of shutdown.       *)
InitFairness ==
    /\ WF_vars(Game_new_load_settings)
    /\ WF_vars(Game_new_settings_loaded)
    /\ WF_vars(Renderer_new_device)
    /\ WF_vars(Renderer_new_asset_loaded)
    /\ WF_vars(Game_new_renderer_created)
    /\ WF_vars(Game_new_terrain_loaded)
    /\ WF_vars(UserEvent_GameStarted)
    /\ WF_vars(UserEvent_LoadSave)
    /\ WF_vars(FileTask)

SpecFrames == InitApp /\ [][NextApp]_vars /\ InitFairness

----------------------------------------------------------------------------
(* Claims about the surface and the depth target *)

Extent(t) == <<t.width, t.height>>

(* C16: after Renderer::resize(w, h) the surface is marked configured, the *)
(* config extent is (max(w,1), max(h,1)) and the depth target has been     *)
(* recreated at exactly that extent with the format it had; after any      *)
(* sequence of resize and render the depth extent equals the config extent *)
(* and both dimensions are at least 1.                                     *)
C16_DepthMatchesConfig ==
    /\ Extent(renderer.depth_buffer) = Extent(renderer.config)
    /\ renderer.config.width >= 1
    /\ renderer.config.height >= 1
    /\ renderer.depth_buffer.format = "Depth32Float"
    /\ lastCall.op = "resize" =>
          /\ renderer.is_surface_configured
          /\ Extent(renderer.config)
                = <<Max(lastCall.size[1], 1), Max(lastCall.size[2], 1)>>

(* A resize to 2x1 after the renderer was created 1x1 *)
C16_Witness ==
    /\ lastCall.op = "resize"
    /\ lastCall.size = <<2, 1>>
    /\ Extent(renderer.depth_buffer) = <<2, 1>>
    /\ renderer.main_camera_buffer.data[1] # CameraData_IDENTITY

IsConfigure(c) == c.op = "configure"
IsAcquire(c) == c.op = "get_current_texture"

(* C17: whenever Renderer::render attempts acquisition the surface has     *)
(* been configured, by an earlier resize or render or by render itself     *)
(* just before, so a resize followed at once by a render acquires from a   *)
(* configured surface; and is_surface_configured is never reset to false.  *)
C17_Step ==
    /\ renderer.is_surface_configured => renderer'.is_surface_configured
    /\ lastCall'.op = "resize" => renderer'.is_surface_configured
    /\ lastCall'.op = "render" =>
          /\ renderer'.is_surface_configured
          /\ Positions(lastCall'.log, IsAcquire) # {}
          /\ \A a \in Positions(lastCall'.log, IsAcquire) :
                \/ renderer.is_surface_configured
                \/ \E c \in Positions(lastCall'.log, IsConfigure) : c < a

C17_ConfiguredBeforeAcquire == [][C17_Step]_vars

(* The first render of a wasm32 build: render configured the surface and   *)
(* then acquired a frame.                                                  *)
C17_Witness ==
    /\ lastCall.op = "render"
    /\ lastCall.acquired = "Ok"
    /\ Positions(lastCall.log, IsConfigure) = {1}
    /\ Positions(lastCall.log, IsAcquire) = {2}

----------------------------------------------------------------------------
(* Claims about the event loop (SpecApp) *)

(* A fatal acquisition error signals exit and records nothing of a frame *)
FatalFrameSkipped ==
    (lastCall.op = "render" /\ lastCall.acquired \in SurfaceErrors \ {"Outdated"})
        => /\ lastCall.exit
           /\ \E p \in 1..Len(lastCall.log) : IsExit(lastCall.log[p])
           /\ NoFrameStage(lastCall.log)
           /\ Positions(lastCall.log, IsDraw) = {}

(* C3: when surface acquisition fails with an error other than Outdated,   *)
(* the frame signals exit, records no draw and submits and presents        *)
(* nothing, and once such an error has been reported no further            *)
(* acquisition is attempted before the application exits, however the      *)
(* Exit event and the pending redraws are interleaved.                     *)
C3_FatalNotRetried ==
    /\ FatalFrameSkipped
    /\ ~hist.retried

(* C18: no frame is acquired with a surface configuration extent that      *)
(* differs from the latest viewport size the windowing layer reported      *)
(* (clamped to 1x1), for every ordering of Resized, GameStarted and        *)
(* RedrawRequested.                                                        *)
C18_AcquiredAtViewportSize ==
    lastCall.op = "render" =>
        \A a \in Positions(lastCall.log, IsAcquire) :
            lastCall.log[a].res = "Ok" =>
                <<lastCall.log[a].n, lastCall.log[a].k>>
                    = <<Max(window[1], 1), Max(window[2], 1)>>

(* The pipeline selected by the flag (render/mod.rs:293-303) *)
ModePipeline(debug_mode_active) ==
    IF debug_mode_active THEN "debug_pipeline" ELSE "triplanar_pipeline"

IsSetPipeline(c) == c.op = "set_pipeline"
IsMainPassDraw(c) == c.op = "draw_indexed" /\ c.pass = "main_pass"

(* The pipeline in effect at position d of a call log: the one set last    *)
(* before d in the same pass.                                              *)
PipelineAt(log, d) ==
    LET before == { p \in Positions(log, IsSetPipeline) :
                       p < d /\ log[p].pass = log[d].pass }
    IN IF before = {} THEN ""
       ELSE log[CHOOSE p \in before : \A q \in before : q <= p].res

DrawnWith(log, debug_mode_active) ==
    /\ \A d \in Positions(log, IsMainPassDraw) :
          PipelineAt(log, d) = ModePipeline(debug_mode_active)
    /\ \A p \in Positions(log, IsSetPipeline) :
          log[p].pass = "main_pass" => log[p].res = ModePipeline(debug_mode_active)

(* C19: within one render call every terrain is drawn with the same        *)
(* pipeline, the debug pipeline when the flag passed to render is true and *)
(* the shaded pipeline when it is false, no frame holds draws of both, and *)
(* the flag is the game's debug setting at the time of the frame.          *)
C19_Step ==
    /\ lastCall'.op = "render" => DrawnWith(lastCall'.log, lastCall'.debug)
    /\ WindowEvent_RedrawRequested =>
          DrawnWith(lastCall'.log, game.settings.debug_mode_active)

----------------------------------------------------------------------------
(* Claims about the bindings of a terrain draw *)

(* The binder that made a binding: buffer.binding comes from the terrain   *)
(* binder (render/terrain.rs:82), main_camera_binding from the camera      *)
(* binder and terrain_texture_binding from the texture array binder        *)
(* (render/mod.rs:124, 181).                                               *)
BinderOf(res) ==
    IF res = "terrain_binding" THEN "uniform_binder"
    ELSE IF res = "main_camera_binding" THEN "camera_binder"
    ELSE IF res = "terrain_texture_binding" THEN "texture_binder"
    ELSE ""

(* The calls that prepare the draw at position d: those after the last     *)
(* set_pipeline before d, and that set_pipeline.                           *)
DrawGroup(log, d) ==
    LET starts == { p \in Positions(log, LAMBDA c : c.op = "set_pipeline") : p < d }
        start == IF starts = {} THEN 1
                 ELSE CHOOSE p \in starts : \A q \in starts : q <= p
    IN start..(d - 1)

BoundAt(log, d, slot) ==
    { log[p].res : p \in { q \in DrawGroup(log, d) :
                              log[q].op = "set_bind_group" /\ log[q].slot = slot } }

(* C20: a terrain draw that is issued has, set before it, slot 0 = the     *)
(* terrain's own uniform binding and slot 1 = the camera binding in both   *)
(* modes, slot 2 = the texture-array binding in shaded mode and nothing at *)
(* slot 2 in debug mode, and the index buffer and the instance buffer of   *)
(* that terrain.                                                           *)
C20_BindingsBeforeDraw ==
    lastCall.op = "render" =>
        \A d \in Positions(lastCall.log, IsTerrainDraw) :
            LET log == lastCall.log
                group == DrawGroup(log, d)
                layouts == TerrainPipeline_layouts(log[d].res)
            IN /\ log[d].res = ModePipeline(lastCall.debug)
               /\ BoundAt(log, d, 0) = {"terrain_binding"}
               /\ BoundAt(log, d, 1) = {"main_camera_binding"}
               /\ BoundAt(log, d, 2) = IF lastCall.debug THEN {}
                                       ELSE {"terrain_texture_binding"}
               /\ \A p \in group :
                     log[p].op = "set_bind_group" =>
                         /\ log[p].id = log[d].id
                         /\ log[p].slot + 1 \in DOMAIN layouts
                         /\ BinderOf(log[p].res) = layouts[log[p].slot + 1]
               /\ \A slot \in DOMAIN layouts : BoundAt(log, d, slot - 1) # {}
               /\ \E p \in group : /\ log[p].op = "set_index_buffer"
                                    /\ log[p].res = "indices"
                                    /\ log[p].id = log[d].id
               /\ \E p \in group : /\ log[p].op = "set_vertex_buffer"
                                    /\ log[p].slot = 0
                                    /\ log[p].res = "tiles"
                                    /\ log[p].id = log[d].id

(* A shaded frame that drew two terrains *)
C20_Witness ==
    /\ lastCall.op = "render"
    /\ ~lastCall.debug
    /\ Cardinality(Positions(lastCall.log, IsTerrainDraw)) = 2
    /\ \A d \in Positions(lastCall.log, IsTerrainDraw) :
          BoundAt(lastCall.log, d, 2) = {"terrain_texture_binding"}

----------------------------------------------------------------------------
(* SpecText: a Renderer holding several texts, driven through buffer_text  *)
(* and update_text alone.                                                  *)

MaxTextInstances == 2

TextInputs ==
    { <<" ">>, <<"K">>, <<"O", "K">>, <<"O", "K", "!">>, <<"O", " ", "K">> }

InitText ==
    /\ \E with_terrain \in BOOLEAN :
          LET r == Renderer_new(2, 1, FALSE)
              terrain == Terrain_generate(1, 4, Heights)
          IN renderer = IF with_terrain
                        THEN Renderer_update_terrain(
                                 Renderer_buffer_terrain(r, terrain).r, 0, terrain)
                        ELSE r
    /\ lastCall = NoCall
    /\ tb_input = [tile_size |-> 1, heights |-> Heights]
    /\ tb_buffer = <<>>
    /\ App_new
    /\ BufferUnused
    /\ BuilderUnused

BufferTextInstance ==
    /\ Len(renderer.text_buffers) < MaxTextInstances
    /\ \E text \in TextInputs :
          LET res == Renderer_buffer_text(renderer, text)
          IN /\ renderer' = res.r
             /\ lastCall' = [NoCall EXCEPT !.op = "buffer_text", !.ret = res.id,
                                           !.text = text]
    /\ UNCHANGED <<indexVars, appVars, bufferVars, builderVars>>

UpdateTextInstance ==
    /\ \E text_id \in 0..(Len(renderer.text_buffers) - 1), text \in TextInputs :
          /\ renderer' = Renderer_update_text(renderer, text_id, text)
          /\ lastCall' = [NoCall EXCEPT !.op = "update_text", !.id = text_id,
                                        !.text = text]
    /\ UNCHANGED <<indexVars, appVars, bufferVars, builderVars>>

NextText == BufferTextInstance \/ UpdateTextInstance

SpecText == InitText /\ [][NextText]_vars

----------------------------------------------------------------------------
(* Claims about the text geometry (SpecText) *)

VisibleCount(text) == Cardinality({ p \in 1..Len(text) : IsVisible(text[p]) })

(* C21: every buffered string has 4 vertices and 6 indices per visible     *)
(* glyph; "OK" has 8 vertices and 12 indices, and updated to "OK!" it has  *)
(* 12 vertices and 18 indices.                                             *)
C21_Step ==
    /\ \A i \in 1..Len(renderer'.text_buffers) :
          LET t == renderer'.text_buffers[i]
          IN /\ t.glyphs = VisibleCount(t.text)
             /\ t.vertices = 4 * t.glyphs
             /\ t.indices = 6 * t.glyphs
             /\ t.text = <<"O", "K">> => (t.vertices = 8 /\ t.indices = 12)
    /\ ( /\ lastCall'.op = "update_text"
         /\ lastCall'.text = <<"O", "K", "!">>
         /\ renderer.text_buffers[lastCall'.id + 1].text = <<"O", "K">> ) =>
            /\ renderer'.text_buffers[lastCall'.id + 1].vertices = 12
            /\ renderer'.text_buffers[lastCall'.id + 1].indices = 18

C21_QuadPerGlyph == [][C21_Step]_vars

(* A text updated to "OK!" beside a text with white space inside *)
C21_Witness ==
    /\ lastCall.op = "update_text"
    /\ lastCall.text = <<"O", "K", "!">>
    /\ renderer.text_buffers[lastCall.id + 1].vertices = 12
    /\ \E i \in 1..Len(renderer.text_buffers) :
          renderer.text_buffers[i].text = <<"O", " ", "K">>

(* C22: after update_text(text_id, s) the text instance is exactly what    *)
(* buffer_text(s) makes for a fresh instance, whatever string it held, and *)
(* no other text instance and no terrain buffer has changed.               *)
C22_Step ==
    lastCall'.op = "update_text" =>
        LET i == lastCall'.id + 1
            fresh == Renderer_buffer_text(Renderer_new(2, 1, FALSE), lastCall'.text)
        IN /\ Len(renderer'.text_buffers) = Len(renderer.text_buffers)
           /\ renderer'.text_buffers[i] = fresh.r.text_buffers[fresh.id + 1]
           /\ \A j \in 1..Len(renderer.text_buffers) :
                 j # i => renderer'.text_buffers[j] = renderer.text_buffers[j]
           /\ renderer'.terrain_buffers = renderer.terrain_buffers

----------------------------------------------------------------------------
(* SpecBuilder: one RenderPipelineBuilder, its setters called in any order *)
(* and any number of times before build().  The values are those           *)
(* TerrainPipeline::new passes (render/terrain.rs:128-168).                *)

Layouts == {"triplanar_layout", "debug_layout"}
VertexEntryPoints == {"displace_terrain"}
FragmentEntryPoints == {"triplanar_shaded", "debug"}

InitBuilder ==
    /\ BuilderUnused
    /\ BufferUnused
    /\ tb_input = [tile_size |-> 1, heights |-> Heights]
    /\ tb_buffer = <<>>
    /\ renderer = Renderer_new(0, 0, FALSE)
    /\ lastCall = NoCall
    /\ App_new

Chained(b) ==
    /\ built.status = "none"
    /\ builder' = b
    /\ UNCHANGED <<built, rendererVars, indexVars, appVars, bufferVars>>

SetLayout == \E layout \in Layouts : Chained(RenderPipelineBuilder_layout(builder, layout))
SetVertex ==
    \E entry_point \in VertexEntryPoints :
        Chained(RenderPipelineBuilder_vertex(builder, entry_point))
SetDepth == Chained(RenderPipelineBuilder_depth(builder, "Less"))
SetCullMode == Chained(RenderPipelineBuilder_cull_mode(builder, "Back"))
SetFragment ==
    \E entry_point \in FragmentEntryPoints :
        Chained(RenderPipelineBuilder_fragment(builder, entry_point))

Build ==
    /\ built.status = "none"
    /\ built' = RenderPipelineBuilder_build(builder)
    /\ UNCHANGED <<builder, rendererVars, indexVars, appVars, bufferVars>>

(* The next pipeline is built with a new builder *)
NewBuilder ==
    /\ built.status # "none"
    /\ builder' = RenderPipelineBuilder_new
    /\ built' = NotBuilt
    /\ UNCHANGED <<rendererVars, indexVars, appVars, bufferVars>>

NextBuilder ==
    SetLayout \/ SetVertex \/ SetDepth \/ SetCullMode \/ SetFragment \/ Build \/ NewBuilder

SpecBuilder == InitBuilder /\ [][NextBuilder]_vars

(* C23: build() fails with a configuration error whenever the layout or    *)
(* the vertex stage was not set, whatever else was set and in whatever     *)
(* order, and yields a pipeline when both were set; depth, cull mode and   *)
(* fragment stage are optional.                                            *)
C23_BuildValidates ==
    built.status # "none" =>
        /\ (builder.layout = "None" \/ builder.vertex = "None") =>
               built.status = "configuration_error"
        /\ (builder.layout # "None" /\ builder.vertex # "None") =>
               /\ built.status = "ok"
               /\ built.pipeline = builder

(* A pipeline built from layout and vertex stage alone *)
C23_Witness ==
    /\ built.status = "ok"
    /\ builder.depth = "None"
    /\ builder.cull_mode = "None"
    /\ builder.fragment = "None"

----------------------------------------------------------------------------
(* Claims about the bindings *)

(* Every binding was made from the allocation its buffer has now *)
BindingsCurrent(r) ==
    /\ r.ui_camera_binding.alloc = r.ui_camera_buffer.alloc
    /\ r.main_camera_binding.alloc = r.main_camera_buffer.alloc
    /\ \A i \in 1..Len(r.terrain_buffers) :
          r.terrain_buffers[i].binding.alloc = r.terrain_buffers[i].terrain_data.alloc

(* C24: a binding always refers to the current device allocation of its    *)
(* buffer (UI camera, world camera, per-terrain uniform): once bound, the  *)
(* buffer is updated in place only and is never reallocated or replaced by *)
(* render, resize, buffer_* or update_*.                                   *)
C24_Step ==
    /\ BindingsCurrent(renderer')
    /\ renderer'.ui_camera_binding = renderer.ui_camera_binding
    /\ renderer'.main_camera_binding = renderer.main_camera_binding
    /\ renderer'.ui_camera_buffer.alloc = renderer.ui_camera_buffer.alloc
    /\ renderer'.ui_camera_buffer.cap = renderer.ui_camera_buffer.cap
    /\ renderer'.main_camera_buffer.alloc = renderer.main_camera_buffer.alloc
    /\ renderer'.main_camera_buffer.cap = renderer.main_camera_buffer.cap
    /\ \A i \in 1..Len(renderer.terrain_buffers) :
          /\ renderer'.terrain_buffers[i].terrain_data
                = renderer.terrain_buffers[i].terrain_data
          /\ renderer'.terrain_buffers[i].binding = renderer.terrain_buffers[i].binding

C24_BindingsStayValid == BindingsCurrent(renderer) /\ [][C24_Step]_vars

(* A debug frame that drew two terrains with a moved world camera *)
C24_Witness ==
    /\ lastCall.op = "render"
    /\ lastCall.debug
    /\ Cardinality(Positions(lastCall.log, IsTerrainDraw)) = 2
    /\ renderer.main_camera_buffer.data[1] # CameraData_IDENTITY
    /\ renderer.ui_camera_buffer.data[1] # CameraData_IDENTITY

----------------------------------------------------------------------------
(* Claims about start-up (SpecApp) *)

(* The task t has taken the result of its load in this step *)
TookResult(t, pc) ==
    /\ AtPc(t, "init", pc)
    /\ Received(t)
    /\ tasks'[t].pc # pc

(* C25: a failure to load optional data is recovered with defaults and     *)
(* does not abort initialization: when the load of the settings file       *)
(* fails Game::new goes on with Settings::default(), and when the load of  *)
(* the terrain file fails World::new goes on with a generated terrain.     *)
C25_Step ==
    \A t \in DOMAIN tasks :
        /\ (TookResult(t, "settings") /\ channels[tasks[t].chan] = "err") =>
               /\ tasks'[t].pc = "renderer"
               /\ game'.settings = Settings_default
        /\ (TookResult(t, "terrain") /\ channels[tasks[t].chan] = "err") =>
               /\ tasks'[t].pc = "done"
               /\ game'.terrain = Terrain_generate(game.settings.terrain_size,
                                                   game.settings.tile_size, Heights)
               /\ events' = Append(events, AppEvent("GameStarted", "", 0,
                                                    Settings_default))

InitFailed == \E t \in DOMAIN tasks : AtPc(t, "init", "panicked")

(* C26: a fatal error during initialization (adapter or device creation,   *)
(* a failed or malformed load of a required asset) triggers application    *)
(* exit: the Exit event is eventually delivered to the event loop.         *)
C26_InitFailureExits == InitFailed ~> exited

(* ... and, the part of C26 that holds: after such an error GameStarted is *)
(* never delivered and the failed initialization is not run again.         *)
InitFailureIsFinal ==
    InitFailed =>
        /\ app_game = "None"
        /\ Cardinality({ t \in DOMAIN tasks : tasks[t].kind = "init" }) = 1
        /\ \A e \in DOMAIN events : events[e].type # "GameStarted"

(***************************************************************************)
(* Concurrent file requests: several tasks call AppController::load_string,*)
(* load_binary or save_string (app/mod.rs:268-293) while the event loop    *)
(* (app/mod.rs:136-186) spawns one worker per request.                     *)
(***************************************************************************)

MaxRequests == 3

(* The paths the repository requests (game/mod.rs:91,258,                  *)
(* render/mod.rs:101, world/mod.rs:41), taken in turn by the requests.      *)
RequestPaths == <<"settings.json", "terrains/default.json", "fonts/OpenSans MSDF.zip">>

(* The AppController methods (app/mod.rs:268-293) *)
RequestMethods == {"save_string", "load_string", "load_binary"}

(* The AppEvent each method sends (app/mod.rs:270-272, 279-281, 288-290) *)
RequestEvent(method) ==
    IF method = "save_string" THEN "SaveString"
    ELSE IF method = "load_string" THEN "LoadString" ELSE "LoadBinary"

IsRequester(t) == tasks[t].kind \in RequestMethods

IsWorker(t) == tasks[t].kind \in {"LoadString", "LoadBinary", "SaveString"}

Requesters == { t \in DOMAIN tasks : IsRequester(t) }

InitLoader ==
    /\ App_new
    /\ BufferUnused
    /\ BuilderUnused
    /\ tb_input = [tile_size |-> 1, heights |-> Heights]
    /\ tb_buffer = <<>>
    /\ renderer = Renderer_new(0, 0, FALSE)
    /\ lastCall = NoCall

(* A task calls save_string, load_string or load_binary (app/mod.rs:268-   *)
(* 293): the channel is created, the event sent, and the task awaits the   *)
(* receiver it kept.                                                       *)
Requester_call ==
    /\ Cardinality(Requesters) < MaxRequests
    /\ \E method \in RequestMethods :
          LET path == RequestPaths[(Cardinality(Requesters) % Len(RequestPaths)) + 1]
          IN /\ AppController_request(channels, RequestEvent(method), path,
                                      Settings_default)
             /\ tasks' = Append(tasks, Task(method, "waiting", path,
                                            events'[Len(events')].chan,
                                            Settings_default))
    /\ UNCHANGED <<rendererVars, indexVars, bufferVars, builderVars, app_game, redraw_requested,
                   exited, window, game, hist>>

(* receiver.recv().await? returns (app/mod.rs:274, 283, 292): the task     *)
(* ends holding the result it took.                                        *)
Requester_recv ==
    /\ \E t \in DOMAIN tasks :
          /\ IsRequester(t)
          /\ tasks[t].pc = "waiting"
          /\ Received(t)
          /\ tasks' = [tasks EXCEPT ![t].pc = channels[tasks[t].chan]]
          /\ channels' = Closed(t)
    /\ UNCHANGED <<rendererVars, indexVars, bufferVars, builderVars, app_game, events, redraw_requested,
                   exited, window, game, hist>>

NextLoader ==
    \/ Requester_call
    \/ UserEvent_LoadSave
    \/ FileTask
    \/ Requester_recv

SpecLoader == InitLoader /\ [][NextLoader]_vars

(* The requester a channel belongs to, the workers that hold its sender,   *)
(* and the requests for it still queued.                                   *)
ReceiversOf(c) == { t \in DOMAIN tasks : IsRequester(t) /\ tasks[t].chan = c }

SendersOf(c) == { t \in DOMAIN tasks : IsWorker(t) /\ tasks[t].chan = c }

QueuedFor(c) == { e \in DOMAIN events : events[e].chan = c }

(* One request, one channel, one worker; the worker serves the request of  *)
(* the task that holds the receiver, and finds the slot free when it sends.*)
ChannelsPrivate ==
    \A c \in DOMAIN channels :
        /\ Cardinality(ReceiversOf(c)) = 1
        /\ Cardinality(SendersOf(c)) + Cardinality(QueuedFor(c)) = 1
        /\ \A t \in ReceiversOf(c) :
              /\ \A w \in SendersOf(c) :
                    /\ tasks[w].kind = RequestEvent(tasks[t].kind)
                    /\ tasks[w].path = tasks[t].path
                    /\ tasks[w].pc = "start" => channels[c] = "empty"
                    /\ tasks[w].pc = "done" => channels[c] # "empty"
              /\ \A e \in QueuedFor(c) :
                    /\ events[e].type = RequestEvent(tasks[t].kind)
                    /\ events[e].path = tasks[t].path
                    /\ channels[c] = "empty"
              /\ tasks[t].pc = "waiting" <=> channels[c] # "closed"

(* A channel carries one value in its life: it is filled once, by the      *)
(* worker holding its sender, and emptied once, by the requester holding   *)
(* its receiver, which returns that value.                                 *)
C27_Step ==
    /\ \A c \in DOMAIN channels :
          channels'[c] # channels[c] =>
              \/ /\ channels[c] = "empty"
                 /\ channels'[c] \in FileOutcomes
                 /\ \E w \in SendersOf(c) :
                       tasks[w].pc = "start" /\ tasks'[w].pc = "done"
              \/ /\ channels[c] \in FileOutcomes
                 /\ channels'[c] = "closed"
                 /\ \E t \in ReceiversOf(c) :
                       tasks[t].pc = "waiting" /\ tasks'[t].pc = channels[c]
    /\ \A t \in DOMAIN tasks :
          tasks'[t].pc # tasks[t].pc =>
              /\ IsRequester(t) =>
                    /\ channels[tasks[t].chan] \in FileOutcomes
                    /\ tasks'[t].pc = channels[tasks[t].chan]
                    /\ channels'[tasks[t].chan] = "closed"
              /\ IsWorker(t) =>
                    /\ channels[tasks[t].chan] = "empty"
                    /\ channels'[tasks[t].chan] \in FileOutcomes

(* C27: every load_string, load_binary and save_string call has a channel  *)
(* of its own, served by one worker whose send finds the slot free, and    *)
(* returns exactly the one result that worker sent for its request,        *)
(* whatever the number and interleaving of the requests in flight.         *)
C27_OneResultPerRequest == []ChannelsPrivate /\ [][C27_Step]_vars

(* Three requests are in flight at once, the newest served first: its      *)
(* result was taken while the two older ones still wait, one with a result *)
(* in its channel and one with its worker not yet run.                     *)
C27_Witness ==
    /\ Cardinality(Requesters) = 3
    /\ \E a, b, c \in Requesters :
          /\ a < b /\ b < c
          /\ tasks[c].pc \in FileOutcomes
          /\ tasks[b].pc = "waiting" /\ channels[tasks[b].chan] \in FileOutcomes
          /\ tasks[a].pc = "waiting" /\ channels[tasks[a].chan] = "empty"

(***************************************************************************)
(* The projection of the UI camera (world/camera.rs:25-33)                 *)
(***************************************************************************)

(* glam::Mat4::orthographic_rh(left, right, bottom, top, near, far) as     *)
(* called at world/camera.rs:31, restricted to x and y: the scale and the  *)
(* translation of each axis, as fractions <<numerator, denominator>>.      *)
Mat4_orthographic_rh(left, right, bottom, top) ==
    [sx |-> <<2, right - left>>, tx |-> <<0 - (right + left), right - left>>,
     sy |-> <<2, top - bottom>>, ty |-> <<0 - (top + bottom), top - bottom>>]

(* Camera2d::proj (world/camera.rs:30-32); view is the identity (26-28),   *)
(* so view_proj (4-6) is proj.                                             *)
Camera2d_proj(camera) == Mat4_orthographic_rh(0, camera.a, 0, camera.b)

(* The clip-space x and y of the point p under m, as fractions *)
Mat4_transform_point(m, p) ==
    [x |-> <<m.sx[1] * p[1] + m.tx[1], m.sx[2]>>,
     y |-> <<m.sy[1] * p[2] + m.ty[1], m.sy[2]>>]

(* The fraction q is the integer v *)
FractionIs(q, v) == q[2] # 0 /\ q[1] = v * q[2]

(* The corners of clip space: x runs from -1 at the left to 1 at the       *)
(* right, y from -1 at the bottom to 1 at the top.                         *)
ClipTopLeft == <<-1, 1>>
ClipBottomRight == <<1, -1>>
ClipBottomLeft == <<-1, -1>>
ClipTopRight == <<1, 1>>

MapsTo(camera, p, corner) ==
    LET q == Mat4_transform_point(Camera2d_proj(camera), p)
    IN FractionIs(q.x, corner[1]) /\ FractionIs(q.y, corner[2])

(* The game is installed and its UI camera has a viewport of positive size *)
UiCameraInUse ==
    app_game = "Some" /\ game.ui_camera.a > 0 /\ game.ui_camera.b > 0

(* C28: the UI camera of a W x H viewport maps the point (0, 0) to the     *)
(* top-left corner of clip space and the point (W, H) to the bottom-right  *)
(* corner.                                                                 *)
C28_UiOriginTopLeft ==
    UiCameraInUse =>
        /\ MapsTo(game.ui_camera, <<0, 0>>, ClipTopLeft)
        /\ MapsTo(game.ui_camera, <<game.ui_camera.a, game.ui_camera.b>>,
                  ClipBottomRight)

(* What the projection does instead: (0, 0) goes to the bottom-left corner *)
(* and (W, H) to the top-right corner; the extents are the viewport size.  *)
UiOriginBottomLeft ==
    UiCameraInUse =>
        /\ MapsTo(game.ui_camera, <<0, 0>>, ClipBottomLeft)
        /\ MapsTo(game.ui_camera, <<game.ui_camera.a, game.ui_camera.b>>,
                  ClipTopRight)
        /\ MapsTo(game.ui_camera, <<0, game.ui_camera.b>>, ClipTopLeft)
        /\ MapsTo(game.ui_camera, <<game.ui_camera.a, 0>>, ClipBottomRight)

(***************************************************************************)
(* The event loop and the loader channels                                  *)
(***************************************************************************)

(* App::user_event (app/mod.rs:126-187): the arms *)
UserEvent ==
    \/ UserEvent_GameStarted
    \/ UserEvent_Exit
    \/ UserEvent_Task
    \/ UserEvent_LoadSave

(* A step of the event loop's thread: no spawned thread moves *)
EventLoopStep == \A t \in DOMAIN tasks : tasks'[t] = tasks[t]

(* The event loop can handle the event at the head of its queue whatever   *)
(* the channels hold.                                                      *)
EventLoopFree == (~exited /\ events # <<>>) => ENABLED UserEvent

(* Game::new is running on its thread *)
InitRunning ==
    \E t \in DOMAIN tasks :
        tasks[t].kind = "init" /\ tasks[t].pc \notin {"done", "panicked"}

(* C29: the event loop's thread neither sends nor receives on a loader     *)
(* channel and is never held up by one, in start-up and in the frames      *)
(* after it; and when the threads run and every file operation returns,    *)
(* a running Game::new leads to GameStarted being handled or to the init   *)
(* task ending with a failure.                                             *)
C29_InitCannotDeadlock ==
    /\ []EventLoopFree
    /\ [][EventLoopStep => channels' = channels]_vars
    /\ InitRunning ~> (app_game = "Some" \/ InitFailed)

(* Game::new has ended with GameStarted handled, and the event loop has    *)
(* drawn a frame while the task of Game::exit waits on the channel of its  *)
(* save, which no worker has answered yet.                                 *)
C29_Witness ==
    /\ app_game = "Some"
    /\ \E t \in DOMAIN tasks : AtPc(t, "init", "done")
    /\ lastCall.op = "render"
    /\ \E t \in DOMAIN tasks :
          AtPc(t, "exit", "save") /\ channels[tasks[t].chan] = "empty"

(***************************************************************************)
(* Shutdown: Game::exit (game/mod.rs:254-265)                              *)
(***************************************************************************)

(* The task t of Game::exit sends Exit in this step *)
ExitPostedBy(t) ==
    /\ tasks[t].kind = "exit"
    /\ tasks'[t].pc # tasks[t].pc
    /\ Len(events') = Len(events) + 1
    /\ events'[Len(events')].type = "Exit"

(* The save that t asked for was served by a worker and succeeded *)
SaveSucceeded(t) ==
    /\ tasks[t].chan # 0
    /\ channels[tasks[t].chan] = "ok"
    /\ \E w \in DOMAIN tasks :
          /\ AtPc(w, "SaveString", "done")
          /\ tasks[w].path = "settings.json"
          /\ tasks[w].chan = tasks[t].chan
          /\ tasks[w].data = tasks[t].data

C30_Step ==
    \A t \in DOMAIN tasks :
        /\ ExitPostedBy(t) =>
              /\ AtPc(t, "exit", "save")
              /\ SaveSucceeded(t)
              /\ channels'[tasks[t].chan] = "closed"
        /\ (AtPc(t, "exit", "save") /\ tasks'[t].pc = "panicked") => events' = events

(* An Exit that is queued or was handled came from a task of Game::exit    *)
(* that ended after its save, or from Renderer::render on a fatal error.   *)
ExitHasCause ==
    (exited \/ \E e \in DOMAIN events : events[e].type = "Exit") =>
        \/ hist.fatal
        \/ \E t \in DOMAIN tasks : AtPc(t, "exit", "done")

(* C30: the task of Game::exit sends Exit only in the step in which it     *)
(* receives the success of the SaveString request for settings.json it     *)
(* made, a failed save sends nothing, and no Exit has another origin than  *)
(* such a task or a fatal surface error.                                   *)
C30_ExitAfterSave == []ExitHasCause /\ [][C30_Step]_vars

(* The event loop has exited on the Exit of Game::exit: no surface error   *)
(* was fatal, and the task ended after its save returned.                  *)
C30_Witness ==
    /\ exited
    /\ ~hist.fatal
    /\ \E t \in DOMAIN tasks : AtPc(t, "exit", "done") /\ channels[tasks[t].chan] = "closed"

(***************************************************************************)
(* Shutdown, to its end                                                    *)
(***************************************************************************)

(* Game::handle_close_requested or Escape has called Game::exit            *)
(* (game/mod.rs:195-197, 212-214, 254-265)                                 *)
CloseRequested == hist.exits > 0

(* The task of Game::exit ended on the error of its save (the ? at         *)
(* game/mod.rs:260, unwrapped at app/mod.rs:82-84)                         *)
SaveFailed == \E t \in DOMAIN tasks : AtPc(t, "exit", "panicked")

(* C31: a close request made once the game has started leads to the event  *)
(* loop exiting, whether the save of the settings succeeds or fails.       *)
C31_CloseLeadsToExit == CloseRequested ~> exited

(* What holds instead: the close request leads to the exit or to the task  *)
(* of Game::exit ending on a failed save, and after a failed save that     *)
(* task sends no Exit.                                                     *)
CloseLeadsToExitOrFailedSave == CloseRequested ~> (exited \/ SaveFailed)

(***************************************************************************)
(* The placement of the tiles (render/mod.rs:346-360)                      *)
(***************************************************************************)

(* The tile b is the neighbour of a one step along x, or one step along z *)
NextAlongX(a, b) == b.id[1] = a.id[1] + 1 /\ b.id[2] = a.id[2]

NextAlongZ(a, b) == b.id[1] = a.id[1] /\ b.id[2] = a.id[2] + 1

(* C32: after update_terrain the k-th instance is the origin               *)
(* (ix * (tile_size - 1), iz * (tile_size - 1)) of the k-th appended tile  *)
(* of the terrain's list, and the instance of a tile's neighbour along x   *)
(* or z lies exactly tile_size - 1 further on that axis, on the tile's     *)
(* last row or column of grid vertices.                                    *)
C32_AdjacentTilesShareBoundary ==
    lastCall.op = "update_terrain" =>
        LET appended == SelectSeq(lastCall.terrain.tiles, InWindow)
            instances == BackedBuffer_slice(UpdatedTiles)
            last == lastCall.terrain.tile_size - 1
        IN /\ Len(instances) = Len(appended)
           /\ \A k \in 1..Len(appended) :
                 instances[k].position =
                     << appended[k].id[1] * last, appended[k].id[2] * last >>
           /\ \A j, k \in 1..Len(appended) :
                 /\ NextAlongX(appended[j], appended[k]) =>
                       instances[k].position =
                           << instances[j].position[1] + last, instances[j].position[2] >>
                 /\ NextAlongZ(appended[j], appended[k]) =>
                       instances[k].position =
                           << instances[j].position[1], instances[j].position[2] + last >>

(* A world of several tiles was updated: four instances, the second one    *)
(* step along x from the first and the third one step along z.             *)
C32_Witness ==
    /\ lastCall.op = "update_terrain"
    /\ lastCall.terrain.tile_size = 2
    /\ Len(BackedBuffer_slice(UpdatedTiles)) = 4
    /\ BackedBuffer_slice(UpdatedTiles)[1].position = <<0, 0>>
    /\ BackedBuffer_slice(UpdatedTiles)[2].position = <<1, 0>>
    /\ BackedBuffer_slice(UpdatedTiles)[3].position = <<0, 1>>
    /\ BackedBuffer_slice(UpdatedTiles)[4].position = <<1, 1>>

(***************************************************************************)
(* The size of the instance buffer (render/terrain.rs:70)                  *)
(***************************************************************************)

(* The ids of the terrain's tiles are pairwise distinct *)
DistinctIds(terrain) ==
    \A j, k \in 1..Len(terrain.tiles) :
        terrain.tiles[j].id = terrain.tiles[k].id => j = k

(* C33: with terrains of pairwise distinct tile ids, whatever updates were *)
(* made, every instance buffer holds at most 4 instances, which is within  *)
(* its initial capacity of 8, and is still the allocation                  *)
(* TerrainBuffer::new made, at that capacity.                              *)
C33_InstanceBufferNeverGrows ==
    (\A terrain \in Terrains : DistinctIds(terrain)) =>
        \A i \in 1..Len(renderer.terrain_buffers) :
            LET tiles == renderer.terrain_buffers[i].tiles
                made == BackedBuffer_with_capacity(TilesCapacity, ZeroInstance)
            IN /\ tiles.len <= 4
               /\ tiles.len <= TilesCapacity
               /\ tiles.cap = made.cap
               /\ tiles.alloc = made.alloc

(* Two terrains were each updated with the world of MaxTerrainSize x       *)
(* MaxTerrainSize distinct tiles, the last call being such an update: both *)
(* instance buffers hold 4 instances.                                      *)
C33_Witness ==
    /\ lastCall.op = "update_terrain"
    /\ Len(lastCall.terrain.tiles) = MaxTerrainSize * MaxTerrainSize
    /\ DistinctIds(lastCall.terrain)
    /\ Len(renderer.terrain_buffers) = 2
    /\ \A i \in 1..2 : renderer.terrain_buffers[i].tiles.len = 4

(***************************************************************************)
(* update_terrain, repeated (render/mod.rs:346-360)                        *)
(***************************************************************************)

(* C34: update_terrain(id, terrain) changes nothing of the renderer but    *)
(* the instance buffer of terrain id (not that terrain's index buffer,     *)
(* uniform or binding, no other terrain, no text buffer, no camera buffer, *)
(* nothing of the surface state), and the same call made again at once     *)
(* leaves the instance contents and length as the first call left them.    *)
C34_Step ==
    lastCall'.op = "update_terrain" =>
        LET i == lastCall'.id + 1
            again == Renderer_update_terrain(renderer', lastCall'.id, lastCall'.terrain)
        IN /\ renderer' = [renderer EXCEPT !.terrain_buffers[i].tiles =
                                              renderer'.terrain_buffers[i].tiles]
           /\ again.terrain_buffers[i].tiles.len = renderer'.terrain_buffers[i].tiles.len
           /\ BackedBuffer_slice(again.terrain_buffers[i].tiles)
                 = BackedBuffer_slice(renderer'.terrain_buffers[i].tiles)
           /\ again = [renderer' EXCEPT !.terrain_buffers[i].tiles =
                                           again.terrain_buffers[i].tiles]

C34_UpdateIdempotentAndLocal == [][C34_Step]_vars

(* The second of two terrains was updated with a single tile while the     *)
(* first holds four instances, a text is registered and the surface is     *)
(* configured.                                                             *)
C34_Witness ==
    /\ lastCall.op = "update_terrain"
    /\ lastCall.id = 1
    /\ Len(renderer.terrain_buffers) = 2
    /\ renderer.terrain_buffers[1].tiles.len = 4
    /\ renderer.terrain_buffers[2].tiles.len = 1
    /\ Len(renderer.text_buffers) >= 1
    /\ renderer.is_surface_configured

(***************************************************************************)
(* SpecTileSize: TerrainBuffer::new with the tile sizes that settings.json *)
(* or terrains/default.json can hold.  Settings.tile_size and              *)
(* Terrain.tile_size are u32 fields read by serde (game/mod.rs:29-30,      *)
(* world/terrain.rs:9) and go unchanged through World::new                 *)
(* (game/mod.rs:115-121, world/mod.rs:41-46) and Renderer::buffer_terrain  *)
(* (render/mod.rs:333-344) to TerrainBuffer::new.                          *)
(***************************************************************************)

(* Every u32 up to MaxTileSize, 0 included *)
FileTileSizes == 0..MaxTileSize

FileTerrainBufferInputs ==
    [tile_size : FileTileSizes,
     heights : [mountain : HeightScales, dune : HeightScales, spire : HeightScales]]

(* The two ways cargo builds the crate: with overflow checks (dev) and     *)
(* without (release).                                                      *)
Builds == {"dev", "release"}

(* a - b on u32 goes below zero *)
U32SubUnderflows(a, b) == a < b

(* TerrainBuffer::new (render/terrain.rs:49-90) with its first subtraction *)
(* checked: tile_size - 1 (line 58) is evaluated before anything else.  On *)
(* underflow the dev build panics and the release build wraps to u32::MAX, *)
(* the bound of both loops; neither gives a buffer.                        *)
TerrainBuffer_new_checked(tile_size, heights, build) ==
    IF U32SubUnderflows(tile_size, 1)
    THEN [status |-> IF build = "dev" THEN "panicked" ELSE "wrapped", buffer |-> <<>>]
    ELSE [status |-> "ok", buffer |-> << TerrainBuffer_new(tile_size, heights) >>]

InitTileSize ==
    /\ tb_input \in FileTerrainBufferInputs
    /\ tb_buffer = <<>>
    /\ renderer = Renderer_new(0, 0, FALSE)
    /\ lastCall = NoCall
    /\ App_new
    /\ BufferUnused
    /\ BuilderUnused

NewTerrainBufferFromFile ==
    /\ tb_buffer = <<>>
    /\ \E build \in Builds :
          tb_buffer' = << TerrainBuffer_new_checked(tb_input.tile_size,
                                                    tb_input.heights, build) >>
    /\ UNCHANGED <<tb_input, rendererVars, appVars, bufferVars, builderVars>>

NextTileSize == NewTerrainBufferFromFile

SpecTileSize == InitTileSize /\ [][NextTileSize]_vars

(* C35: for every tile size that settings or a loaded terrain can hand to  *)
(* TerrainBuffer::new, tile_size - 1 is computed with tile_size >= 1 and   *)
(* does not underflow, and tile size 1 gives an empty index buffer.        *)
C35_NoUnderflow ==
    tb_buffer # <<>> =>
        /\ tb_input.tile_size >= 1
        /\ tb_buffer[1].status = "ok"
        /\ tb_input.tile_size = 1 => tb_buffer[1].buffer[1].indices.len = 0

(* What holds instead: tile size 0 underflows, every tile size from 1 up   *)
(* does not, and tile size 1 gives an empty index buffer.                  *)
UnderflowOnlyAtZero ==
    tb_buffer # <<>> =>
        /\ tb_buffer[1].status = "ok" <=> tb_input.tile_size >= 1
        /\ tb_input.tile_size = 1 => tb_buffer[1].buffer[1].indices.len = 0
====
